---- MODULE Spec2Model ----
(***************************************************************************)
(* Day 8 (src/src/day_08/solution.py): the proximity clustering engine.    *)
(* Input text is parsed into 3-D positions, all pairs are sorted by        *)
(* squared distance, and the pairs are folded one by one into the          *)
(* `circuits` mapping (position -> group identifier).  solve_part_1 stops  *)
(* after a limit of pairs and scores the three largest groups;             *)
(* solve_part_2 stops at the pair that leaves a single group.  A third     *)
(* driver, "unions", calls _connect on arbitrary registered points in any  *)
(* order, as a caller of the mapping may.                                  *)
(*                                                                         *)
(* Day 1 (src/2025/src/day_01): a dial of 100 positions starting at 50 is  *)
(* turned left and right by the lines of the input.  solution.py holds the *)
(* original solvers, solution_improved.py the rewritten ones; the test     *)
(* script calls them on the same text and compares what they return.       *)
(*                                                                         *)
(* Day 7 (src/2025/src/day_07): beams run down a manifold from S and split *)
(* at every '^' they reach; solve_part_1 counts the splitters reached.     *)
(*                                                                         *)
(* Day 3 (src/src/day_03): solve_part_2 picks twelve digits of every line  *)
(* and adds up the numbers they spell.  Day 5 (src/2025/src/day_05):       *)
(* solve_part_2 counts the ids covered by a list of ranges.  Day 4         *)
(* (src/2025/src/day_04): solve_part_2 removes accessible rolls from a     *)
(* grid round after round.  Each program has its own variables, initial    *)
(* condition and specification; the others stay idle meanwhile.            *)
(*                                                                         *)
(* Text is a sequence of one-character strings.  A Python dict is a record *)
(* [keys |-> insertion-ordered sequence of keys, val |-> key -> value].    *)
(* Python's None is the empty tuple <<>>; an integer result r is <<r>>.    *)
(***************************************************************************)
EXTENDS Integers, Sequences, FiniteSets, TLC

VARIABLES data, query, pc, positions, circuits, connections, limit, idx,
          connecting, result, error,
          sample_data, original_result1, improved_result1, original_result2,
          improved_result2_sim, improved_result2_math,
          dial_state, dial_call,
          manifold_data, beam_pc, manifold, active, splits, manifold_result,
          battery_data, bank_pc, banks, bank_idx, batteries, start_idx,
          remaining_positions, voltage_str, total_output_voltage, battery_result,
          range_data, range_pc, fresh_ranges, sorted_ranges, highest, a_total,
          range_result,
          roll_data, roll_pc, roll_grid, round, total_removed, roll_result

\* The variables of day 8 and of day 1.
day_08 == <<data, query, pc, positions, circuits, connections, limit, idx,
            connecting, result, error>>

day_01 == <<sample_data, original_result1, improved_result1, original_result2,
            improved_result2_sim, improved_result2_math>>

\* One CircularDial object and the last call made on it.
dial_object == <<dial_state, dial_call>>

\* The variables of day 7, part 1.
day_07 == <<manifold_data, beam_pc, manifold, active, splits, manifold_result>>

\* Day 3 part 2: the text, the position in solve_part_2, its lines, the line in hand and the greedy selection on it, the running total and the outcome.
day_03 == <<battery_data, bank_pc, banks, bank_idx, batteries, start_idx, remaining_positions, voltage_str, total_output_voltage, battery_result>>

\* Day 5 part 2: the text, the position in solve_part_2, the parsed ranges, what is left of them in sorted order, the highest id counted, the count `a` and the outcome.
day_05 == <<range_data, range_pc, fresh_ranges, sorted_ranges, highest, a_total, range_result>>

\* Day 4 part 2: the text, the position in solve_part_2, the grid of rolls, the number of iterations of its loop begun so far, the count of removed rolls and the outcome.
day_04 == <<roll_data, roll_pc, roll_grid, round, total_removed, roll_result>>

vars == <<day_08, day_01, dial_object, day_07, day_03, day_05, day_04>>

\* What the steps of one program leave alone: the variables of the others.
not_day_08 == <<day_01, dial_object, day_07, day_03, day_05, day_04>>

not_day_01 == <<day_08, dial_object, day_07, day_03, day_05, day_04>>

not_dial_object == <<day_08, day_01, day_07, day_03, day_05, day_04>>

not_day_07 == <<day_08, day_01, dial_object, day_03, day_05, day_04>>

not_day_03 == <<day_08, day_01, dial_object, day_07, day_05, day_04>>

not_day_05 == <<day_08, day_01, dial_object, day_07, day_03, day_04>>

not_day_04 == <<day_08, day_01, dial_object, day_07, day_03, day_05>>

\* The variables of a program that is not running.
day_08_idle ==
  /\ data = <<>>
  /\ query = "none"
  /\ pc = "idle"
  /\ positions = <<>>
  /\ circuits = [keys |-> <<>>, val |-> <<>>]
  /\ connections = <<>>
  /\ limit = <<>>
  /\ idx = 0
  /\ connecting = <<>>
  /\ result = <<>>
  /\ error = ""

day_01_idle ==
  /\ sample_data = <<>>
  /\ original_result1 = <<>>
  /\ improved_result1 = <<>>
  /\ original_result2 = <<>>
  /\ improved_result2_sim = <<>>
  /\ improved_result2_math = <<>>

dial_object_idle ==
  /\ dial_state = [err |-> "unbuilt", position |-> 0, zero_count |-> 0]
  /\ dial_call = <<"none", 0>>

day_07_idle ==
  /\ manifold_data = <<>>
  /\ beam_pc = "idle"
  /\ manifold = <<>>
  /\ active = {}
  /\ splits = 0
  /\ manifold_result = <<>>

day_03_idle ==
  /\ battery_data = <<>>
  /\ bank_pc = "idle"
  /\ banks = <<>>
  /\ bank_idx = 0
  /\ batteries = <<>>
  /\ start_idx = 0
  /\ remaining_positions = 0
  /\ voltage_str = <<>>
  /\ total_output_voltage = <<0, 0>>
  /\ battery_result = <<>>

day_05_idle ==
  /\ range_data = <<>>
  /\ range_pc = "idle"
  /\ fresh_ranges = <<>>
  /\ sorted_ranges = <<>>
  /\ highest = 0
  /\ a_total = 0
  /\ range_result = <<>>

day_04_idle ==
  /\ roll_data = <<>>
  /\ roll_pc = "idle"
  /\ roll_grid = <<>>
  /\ round = 0
  /\ total_removed = 0
  /\ roll_result = <<>>

\* ------------------------------------------------------------------ bounds

\* Longest enumerated input, in lines.
MaxPoints == 3

\* Most unions the free driver of the forest makes.
MaxUnions == 3

\* The point count that selects the small limit, and the two limits.
TestSize == 20
TestLimit == 10
RealLimit == 1000

None == <<>>

\* ------------------------------------------------------------------- text

Digits == <<"0", "1", "2", "3", "4", "5", "6", "7", "8", "9">>

IsDigit(ch) == \E d \in 1..10 : Digits[d] = ch

DigitVal(ch) == (CHOOSE d \in 1..10 : Digits[d] = ch) - 1

IsSpace(ch) == ch \in {" ", "\n"}

\* str.strip(): drop leading and trailing whitespace.
RECURSIVE lstrip(_)
lstrip(s) ==
  IF s # <<>> /\ IsSpace(Head(s)) THEN lstrip(Tail(s)) ELSE s

RECURSIVE rstrip(_)
rstrip(s) ==
  IF s # <<>> /\ IsSpace(s[Len(s)]) THEN rstrip(SubSeq(s, 1, Len(s) - 1)) ELSE s

strip(s) == rstrip(lstrip(s))

\* str.split(sep): the pieces between separators; always at least one piece.
\* SepAt(s, sep, k) is the position of the k-th separator, 0 before the first
\* piece and Len(s) + 1 after the last.
SepAt(s, sep, k) ==
  LET P == {i \in 1..Len(s) : s[i] = sep}
  IN IF k = 0 THEN 0
     ELSE IF k > Cardinality(P) THEN Len(s) + 1
     ELSE CHOOSE i \in P : Cardinality({j \in P : j <= i}) = k

split(s, sep) ==
  LET n == Cardinality({i \in 1..Len(s) : s[i] = sep})
  IN [k \in 1..(n + 1) |->
        SubSeq(s, SepAt(s, sep, k - 1) + 1, SepAt(s, sep, k) - 1)]

\* int(text): optional surrounding whitespace, optional sign, one or more digits.
IntBody(tok) ==
  LET t == strip(tok)
  IN IF t # <<>> /\ Head(t) \in {"-", "+"} THEN Tail(t) ELSE t

IntOk(tok) ==
  LET b == IntBody(tok)
  IN b # <<>> /\ \A k \in 1..Len(b) : IsDigit(b[k])

RECURSIVE DigitsVal(_)
DigitsVal(b) ==
  IF b = <<>> THEN 0
  ELSE 10 * DigitsVal(SubSeq(b, 1, Len(b) - 1)) + DigitVal(b[Len(b)])

int(tok) ==
  LET t == strip(tok)
  IN IF t # <<>> /\ Head(t) = "-" THEN 0 - DigitsVal(IntBody(tok))
     ELSE DigitsVal(IntBody(tok))

\* ---------------------------------------------------------------- parsing

\* parse_line: int() of every comma-separated field, then the length assertion.
\* The outcome is [err |-> "" , pos |-> <<x, y, z>>] or [err |-> exception].
\* Variant of parse_line: the length assertion is left out.
parse_line_any_length(line) ==
  LET fields == split(line, ",")
  IN IF \E k \in 1..Len(fields) : ~IntOk(fields[k])
       THEN [err |-> "ValueError", pos |-> None]
     ELSE [err |-> "", pos |-> [k \in 1..Len(fields) |-> int(fields[k])]]

parse_line(line) ==
  LET fields == split(line, ",")
  IN IF \E k \in 1..Len(fields) : ~IntOk(fields[k])
       THEN [err |-> "ValueError", pos |-> None]
     ELSE IF Len(fields) # 3
       THEN [err |-> "AssertionError", pos |-> None]
     ELSE [err |-> "", pos |-> [k \in 1..3 |-> int(fields[k])]]

\* parse_input: parse_line over the lines of the stripped text, in order; the
\* first line that raises decides the exception.
parse_input(text) ==
  LET lines  == split(strip(text), "\n")
      parsed == [k \in 1..Len(lines) |-> parse_line(lines[k])]
      bad    == {k \in 1..Len(lines) : parsed[k].err # ""}
  IN IF bad = {}
       THEN [err |-> "", positions |-> [k \in 1..Len(lines) |-> parsed[k].pos]]
     ELSE [err |-> parsed[CHOOSE k \in bad : \A j \in bad : k <= j].err,
           positions |-> <<>>]

\* ----------------------------------------------------------------- engine

\* get_distance: the sum over the zipped coordinates of the squared difference.
RECURSIVE SumSquares(_, _, _)
SumSquares(a, b, k) ==
  IF k = 0 THEN 0
  ELSE SumSquares(a, b, k - 1) + (a[k] - b[k]) * (a[k] - b[k])

\* Variant of get_distance: the last coordinate is left out of the sum.
get_distance_no_z(a, b) == SumSquares(a, b, Len(a) - 1)

get_distance(a, b) == SumSquares(a, b, Len(a))

\* itertools.combinations(seq, 2): the pairs <<seq[i], seq[j]>>, i < j, in
\* lexicographic order of (i, j).
RECURSIVE CombinationsFrom(_, _)
CombinationsFrom(seq, i) ==
  IF i >= Len(seq) THEN <<>>
  ELSE [j \in 1..(Len(seq) - i) |-> <<seq[i], seq[i + j]>>]
         \o CombinationsFrom(seq, i + 1)

\* Variant of combinations: combinations_with_replacement, which also pairs
\* every element with itself.
RECURSIVE CombinationsWithReplacementFrom(_, _)
CombinationsWithReplacementFrom(seq, i) ==
  IF i > Len(seq) THEN <<>>
  ELSE [j \in 1..(Len(seq) - i + 1) |-> <<seq[i], seq[i + j - 1]>>]
         \o CombinationsWithReplacementFrom(seq, i + 1)

combinations_with_replacement(seq) == CombinationsWithReplacementFrom(seq, 1)

combinations(seq) == CombinationsFrom(seq, 1)

\* sorted(iterable, key=...): every element is decorated with its key once
\* and the decorated list is merge-sorted; on equal keys the element of the
\* left run goes first (a stable sort).  A decorated element is <<key, element>>.
\* Variant of Merge: on equal keys the element of the right run goes first
\* (an unstable sort).
Merge_right_first(left, right) ==
  LET posL(i) == i + Cardinality({j \in 1..Len(right) : right[j][1] <= left[i][1]})
      posR(j) == j + Cardinality({i \in 1..Len(left) : left[i][1] < right[j][1]})
  IN [k \in 1..(Len(left) + Len(right)) |->
        IF \E i \in 1..Len(left) : posL(i) = k
          THEN left[CHOOSE i \in 1..Len(left) : posL(i) = k]
        ELSE right[CHOOSE j \in 1..Len(right) : posR(j) = k]]

Merge(left, right) ==
  LET posL(i) == i + Cardinality({j \in 1..Len(right) : right[j][1] < left[i][1]})
      posR(j) == j + Cardinality({i \in 1..Len(left) : left[i][1] <= right[j][1]})
  IN [k \in 1..(Len(left) + Len(right)) |->
        IF \E i \in 1..Len(left) : posL(i) = k
          THEN left[CHOOSE i \in 1..Len(left) : posL(i) = k]
        ELSE right[CHOOSE j \in 1..Len(right) : posR(j) = k]]

RECURSIVE SortDecorated(_)
SortDecorated(keyed) ==
  IF Len(keyed) <= 1 THEN keyed
  ELSE LET half == Len(keyed) \div 2
       IN Merge(SortDecorated(SubSeq(keyed, 1, half)),
                SortDecorated(SubSeq(keyed, half + 1, Len(keyed))))

sorted(keyed) ==
  LET s == SortDecorated(keyed)
  IN [k \in 1..Len(s) |-> s[k][2]]

\* sorted(..., reverse=True): descending, equal keys keep their order.
MergeReverse(left, right) ==
  LET posL(i) == i + Cardinality({j \in 1..Len(right) : right[j][1] > left[i][1]})
      posR(j) == j + Cardinality({i \in 1..Len(left) : left[i][1] >= right[j][1]})
  IN [k \in 1..(Len(left) + Len(right)) |->
        IF \E i \in 1..Len(left) : posL(i) = k
          THEN left[CHOOSE i \in 1..Len(left) : posL(i) = k]
        ELSE right[CHOOSE j \in 1..Len(right) : posR(j) = k]]

RECURSIVE SortDecoratedReverse(_)
SortDecoratedReverse(keyed) ==
  IF Len(keyed) <= 1 THEN keyed
  ELSE LET half == Len(keyed) \div 2
       IN MergeReverse(SortDecoratedReverse(SubSeq(keyed, 1, half)),
                       SortDecoratedReverse(SubSeq(keyed, half + 1, Len(keyed))))

sorted_reverse(keyed) ==
  LET s == SortDecoratedReverse(keyed)
  IN [k \in 1..Len(s) |-> s[k][2]]

\* sort_by_distance: all pairs of positions, closest first.
\* Variant of sort_by_distance: the pairs stay in generation order.
sort_by_distance_unsorted(ps) == combinations(ps)

sort_by_distance(ps) ==
  LET pairs == combinations(ps)
  IN sorted([k \in 1..Len(pairs) |->
               <<get_distance(pairs[k][1], pairs[k][2]), pairs[k]>>])

\* _limit: the connection limit from the input size.
\* Variant of _limit: the input size is not looked at.
_limit_any_size(ps) == RealLimit

_limit(ps) == IF Len(ps) = TestSize THEN TestLimit ELSE RealLimit

\* connections[:limit]
Prefix(seq, n) == SubSeq(seq, 1, IF n < Len(seq) THEN n ELSE Len(seq))

\* {_p: _n for _n, _p in enumerate(positions)}: a key enters the dict at its
\* first occurrence and holds the 0-based index of its last occurrence.
EmptyDict == [keys |-> <<>>, val |-> <<>>]

HasKey(d, key) == \E k \in 1..Len(d.keys) : d.keys[k] = key

DictSet(d, key, value) ==
  IF HasKey(d, key)
    THEN [d EXCEPT !.val = [q \in DOMAIN d.val |->
                              IF q = key THEN value ELSE d.val[q]]]
  ELSE [keys |-> Append(d.keys, key),
        val  |-> [q \in (DOMAIN d.val) \cup {key} |->
                    IF q = key THEN value ELSE d.val[q]]]

RECURSIVE EnumerateDict(_, _)
EnumerateDict(ps, n) ==
  IF n = 0 THEN EmptyDict
  ELSE DictSet(EnumerateDict(ps, n - 1), ps[n], n - 1)

new_circuits(ps) == EnumerateDict(ps, Len(ps))

\* _connect: when the two positions carry different identifiers, every key
\* carrying pos_b's identifier (read once, before the loop) takes pos_a's.
RECURSIVE ConnectLoop(_, _, _, _)
ConnectLoop(d, k, circuit_b, pos_a) ==
  IF k > Len(d.keys) THEN d
  ELSE LET pos == d.keys[k]
       IN ConnectLoop(IF d.val[pos] = circuit_b
                        THEN DictSet(d, pos, d.val[pos_a])
                      ELSE d,
                      k + 1, circuit_b, pos_a)

\* Variant of _connect: pos_b's identifier is read again at every key instead
\* of once before the loop, so the comparison changes once pos_b is relabelled.
RECURSIVE ConnectLoopLiveRead(_, _, _, _)
ConnectLoopLiveRead(d, k, pos_a, pos_b) ==
  IF k > Len(d.keys) THEN d
  ELSE LET pos == d.keys[k]
       IN ConnectLoopLiveRead(IF d.val[pos] = d.val[pos_b]
                                THEN DictSet(d, pos, d.val[pos_a])
                              ELSE d,
                              k + 1, pos_a, pos_b)

_connect_live_read(d, pos_a, pos_b) ==
  IF d.val[pos_a] # d.val[pos_b]
    THEN ConnectLoopLiveRead(d, 1, pos_a, pos_b)
  ELSE d

\* Variant of _connect: no test for equal identifiers, and the merged group
\* takes a new identifier instead of pos_a's.
_connect_fresh_id(d, pos_a, pos_b) ==
  LET fresh == 1 + CHOOSE m \in {d.val[q] : q \in DOMAIN d.val} :
                      \A q \in DOMAIN d.val : d.val[q] <= m
  IN [d EXCEPT !.val = [q \in DOMAIN d.val |->
                          IF d.val[q] \in {d.val[pos_a], d.val[pos_b]}
                            THEN fresh
                          ELSE d.val[q]]]

\* Variant of _connect: the merged group keeps pos_b's identifier.
_connect_keeps_b(d, pos_a, pos_b) ==
  IF d.val[pos_a] # d.val[pos_b]
    THEN ConnectLoop(d, 1, d.val[pos_a], pos_b)
  ELSE d

_connect(d, pos_a, pos_b) ==
  IF d.val[pos_a] # d.val[pos_b]
    THEN ConnectLoop(d, 1, d.val[pos_b], pos_a)
  ELSE d

\* collections.Counter(circuits.values()): identifier -> number of keys
\* carrying it, identifiers in order of first appearance.
RECURSIVE CounterFrom(_, _)
CounterFrom(d, n) ==
  IF n = 0 THEN EmptyDict
  ELSE LET c  == CounterFrom(d, n - 1)
           id == d.val[d.keys[n]]
       IN DictSet(c, id, IF HasKey(c, id) THEN c.val[id] + 1 ELSE 1)

\* Variant of Counter: counts the distinct identifiers, Counter(set(values)),
\* so every count is 1.
Counter_of_set(d) ==
  LET c == CounterFrom(d, Len(d.keys))
  IN [c EXCEPT !.val = [id \in DOMAIN c.val |-> 1]]

Counter(d) == CounterFrom(d, Len(d.keys))

\* _top_3: the counts, largest first, cut to three.
\* Variant of _top_3: the counts are sorted without reverse=True, so the cut
\* keeps the three smallest.
_top_3_ascending(d) ==
  LET counter == Counter(d)
      x == sorted([k \in 1..Len(counter.keys) |->
                     <<counter.val[counter.keys[k]],
                       counter.val[counter.keys[k]]>>])
  IN Prefix(x, 3)

_top_3(d) ==
  LET counter == Counter(d)
      x == sorted_reverse([k \in 1..Len(counter.keys) |->
                             <<counter.val[counter.keys[k]],
                               counter.val[counter.keys[k]]>>])
  IN Prefix(x, 3)

\* functools.reduce(lambda a, b: a * b, seq) with no initial value: the
\* product of a non-empty sequence; TypeError on an empty one.
RECURSIVE Product(_)
Product(seq) ==
  IF Len(seq) = 1 THEN seq[1]
  ELSE Product(SubSeq(seq, 1, Len(seq) - 1)) * seq[Len(seq)]

_score(d) ==
  LET top == _top_3(d)
  IN IF top = <<>> THEN [err |-> "TypeError", value |-> None]
     ELSE [err |-> "", value |-> <<Product(top)>>]

\* Variant: reports a connected whole as soon as at most two groups remain.
_are_connected_two_groups(d) ==
  Cardinality({d.val[d.keys[k]] : k \in 1..Len(d.keys)}) <= 2

\* _are_connected: one identifier is left among the values.
_are_connected(d) ==
  Cardinality({d.val[d.keys[k]] : k \in 1..Len(d.keys)}) = 1

\* for c in connections[lo..hi]: _connect(circuits, *c), halving the range.
RECURSIVE ConnectRange(_, _, _, _)
ConnectRange(d, edges, lo, hi) ==
  IF lo > hi THEN d
  ELSE IF lo = hi THEN _connect(d, edges[lo][1], edges[lo][2])
  ELSE LET mid == (lo + hi) \div 2
       IN ConnectRange(ConnectRange(d, edges, lo, mid), edges, mid + 1, hi)

\* solve_part_1 as a function of its argument: [err, value].
solve_part_1(text) ==
  LET parsed == parse_input(text)
      ps     == parsed.positions
      edges  == Prefix(sort_by_distance(ps), _limit(ps))
  IN IF parsed.err # "" THEN [err |-> parsed.err, value |-> None]
     ELSE _score(ConnectRange(new_circuits(ps), edges, 1, Len(edges)))

\* solve_part_2 as a function of its argument: [err, value].  The loop breaks
\* at the first pair after which the mapping is connected.
solve_part_2(text) ==
  LET parsed == parse_input(text)
      ps     == parsed.positions
      edges  == sort_by_distance(ps)
      stops  == {k \in 1..Len(edges) :
                   _are_connected(ConnectRange(new_circuits(ps), edges, 1, k))}
  IN IF parsed.err # "" THEN [err |-> parsed.err, value |-> None]
     ELSE IF stops = {} THEN [err |-> "AssertionError", value |-> None]
     ELSE LET c == edges[CHOOSE k \in stops : \A j \in stops : k <= j]
          IN [err |-> "", value |-> <<c[1][1] * c[2][1]>>]

\* ----------------------------------------------------------------- inputs

\* str(n) and the text of a list of positions: "x,y,z" lines joined by "\n".
RECURSIVE NatText(_)
NatText(n) ==
  IF n < 10 THEN <<Digits[n + 1]>>
  ELSE Append(NatText(n \div 10), Digits[(n % 10) + 1])

IntText(n) == IF n < 0 THEN <<"-">> \o NatText(0 - n) ELSE NatText(n)

LineText(p) == IntText(p[1]) \o <<",">> \o IntText(p[2]) \o <<",">> \o IntText(p[3])

RECURSIVE InputText(_)
InputText(ps) ==
  IF ps = <<>> THEN <<>>
  ELSE IF Len(ps) = 1 THEN LineText(ps[1])
  ELSE InputText(SubSeq(ps, 1, Len(ps) - 1)) \o <<"\n">> \o LineText(ps[Len(ps)])

\* The coordinates the enumerated inputs are made of.
Universe ==
  { <<0, 0, 0>>, <<1, 0, 0>>, <<5, 0, 0>>, <<0, 1, 0>>,
    <<0, 0, -1>>, <<2, 2, 1>>, <<-3, 0, 4>> }

SmallInputs ==
  UNION { [1..n -> Universe] : n \in 1..MaxPoints }

\* An input of n distinct points, for the sizes around TestSize.
LargeInput(n) ==
  [i \in 1..n |-> <<(i * 7) % 23, (i * i) % 11, ((i * 3) % 5) - 2>>]

LargeInputs == { LargeInput(TestSize), LargeInput(TestSize + 1) }

\* Texts that are not the plain rendering of a list of positions.
OtherTexts ==
  { <<>>,
    <<"1", ",", "2">>,
    <<"1", ",", "2", ",", "3", ",", "4">>,
    <<"1", ",", "x", ",", "3">>,
    <<"1", ",", ",", "3">>,
    <<"x", ",", "2">>,
    <<"1", ",", "2", ",", "3", "\n", "\n", "4", ",", "5", ",", "6">>,
    <<"0", ",", "0", ",", "0", "\n", "1", ",", "2">>,
    <<"0", ",", "0", ",", "0", "\n", "1", ",", "0", ",", "0", "\n">>,
    <<" ", "1", ",", " ", "2", " ", ",", "+", "3">> }

\* Five points whose ten pair weights are all different, and whose third
\* lightest pair closes a cycle.
BridgeInput ==
  << <<0, 0, 0>>, <<1, 0, 0>>, <<3, 0, 0>>, <<10, 0, 0>>, <<10, 6, 0>> >>

Inputs ==
  { InputText(ps) : ps \in SmallInputs \cup LargeInputs \cup {BridgeInput} }
    \cup OtherTexts

\* The inputs whose mapping the free driver works on: four distinct points,
\* and four lines two of which have the same coordinates.
ForestInputs ==
  { << <<0, 0, 0>>, <<1, 0, 0>>, <<5, 0, 0>>, <<0, 1, 0>> >>,
    << <<0, 0, 0>>, <<1, 0, 0>>, <<0, 0, 0>>, <<5, 0, 0>> >> }

\* ---------------------------------------------------------- state machine

Init ==
  /\ \/ query \in {"part1", "part2"} /\ data \in Inputs
     \/ query = "unions" /\ data \in {InputText(ps) : ps \in ForestInputs}
  /\ pc = "start"
  /\ positions = <<>>
  /\ circuits = EmptyDict
  /\ connections = <<>>
  /\ limit = None
  /\ idx = 0
  /\ connecting = None
  /\ result = None
  /\ error = ""
  /\ day_01_idle
  /\ dial_object_idle
  /\ day_04_idle
  /\ day_05_idle
  /\ day_03_idle
  /\ day_07_idle

\* positions = parse_input(data), which returns the positions ...
ParseOk ==
  /\ pc = "start"
  /\ parse_input(data).err = ""
  /\ positions' = parse_input(data).positions
  /\ pc' = "parsed"
  /\ UNCHANGED <<not_day_08, data, query, circuits, connections, limit, idx, connecting,
                 result, error>>

\* ... or raises, which ends the query without a result.
ParseRaises ==
  /\ pc = "start"
  /\ parse_input(data).err # ""
  /\ error' = parse_input(data).err
  /\ pc' = "raised"
  /\ UNCHANGED <<not_day_08, data, query, positions, circuits, connections, limit, idx,
                 connecting, result>>

\* solve_part_1 up to its loop: the fresh mapping and the limited pair list.
Setup1 ==
  /\ pc = "parsed"
  /\ query = "part1"
  /\ circuits' = new_circuits(positions)
  /\ limit' = <<_limit(positions)>>
  /\ connections' = Prefix(sort_by_distance(positions), _limit(positions))
  /\ idx' = 0
  /\ pc' = "loop"
  /\ UNCHANGED <<not_day_08, data, query, positions, connecting, result, error>>

\* Variant of Setup2: a mapping left by an earlier query is used again.
Setup2_shared_circuits ==
  /\ pc = "parsed"
  /\ query = "part2"
  /\ circuits' = IF circuits = EmptyDict THEN new_circuits(positions) ELSE circuits
  /\ connections' = sort_by_distance(positions)
  /\ connecting' = None
  /\ idx' = 0
  /\ pc' = "loop"
  /\ UNCHANGED <<not_day_08, data, query, positions, limit, result, error>>

\* solve_part_2 up to its loop: the fresh mapping and the whole pair list.
Setup2 ==
  /\ pc = "parsed"
  /\ query = "part2"
  /\ circuits' = new_circuits(positions)
  /\ connections' = sort_by_distance(positions)
  /\ connecting' = None
  /\ idx' = 0
  /\ pc' = "loop"
  /\ UNCHANGED <<not_day_08, data, query, positions, limit, result, error>>

\* One iteration of solve_part_1's loop.
Step1 ==
  /\ pc = "loop"
  /\ query = "part1"
  /\ idx < Len(connections)
  /\ circuits' = _connect(circuits, connections[idx + 1][1], connections[idx + 1][2])
  /\ idx' = idx + 1
  /\ UNCHANGED <<not_day_08, data, query, pc, positions, connections, limit, connecting,
                 result, error>>

\* The end of solve_part_1: return _score(circuits).
Score1 ==
  /\ pc = "loop"
  /\ query = "part1"
  /\ idx = Len(connections)
  /\ LET r == _score(circuits)
     IN /\ result' = r.value
        /\ error' = r.err
        /\ pc' = IF r.err = "" THEN "done" ELSE "raised"
  /\ UNCHANGED <<not_day_08, data, query, positions, circuits, connections, limit, idx,
                 connecting>>

\* One iteration of solve_part_2's loop: connect, then break when connected.
Step2 ==
  /\ pc = "loop"
  /\ query = "part2"
  /\ idx < Len(connections)
  /\ LET c == connections[idx + 1]
         d == _connect(circuits, c[1], c[2])
     IN /\ circuits' = d
        /\ idx' = idx + 1
        /\ IF _are_connected(d)
             THEN connecting' = c /\ pc' = "after_loop"
           ELSE UNCHANGED <<connecting, pc>>
  /\ UNCHANGED <<not_day_08, data, query, positions, connections, limit, result, error>>

\* solve_part_2's loop runs out of pairs.
Exhaust2 ==
  /\ pc = "loop"
  /\ query = "part2"
  /\ idx = Len(connections)
  /\ pc' = "after_loop"
  /\ UNCHANGED <<not_day_08, data, query, positions, circuits, connections, limit, idx,
                 connecting, result, error>>

\* The end of solve_part_2: the assertion, then the product of the first
\* coordinates of the connecting pair.
Finish2 ==
  /\ pc = "after_loop"
  /\ IF connecting = None
       THEN /\ error' = "AssertionError"
            /\ pc' = "raised"
            /\ UNCHANGED result
     ELSE /\ result' = <<connecting[1][1] * connecting[2][1]>>
          /\ pc' = "done"
          /\ UNCHANGED error
  /\ UNCHANGED <<not_day_08, data, query, positions, circuits, connections, limit, idx,
                 connecting>>

\* The free driver: a fresh mapping over the parsed positions ...
SetupUnions ==
  /\ pc = "parsed"
  /\ query = "unions"
  /\ circuits' = new_circuits(positions)
  /\ connections' = <<>>
  /\ idx' = 0
  /\ pc' = "forest"
  /\ UNCHANGED <<not_day_08, data, query, positions, limit, connecting, result, error>>

\* ... and _connect on any two registered points; connections keeps the calls.
Union ==
  /\ pc = "forest"
  /\ idx < MaxUnions
  /\ \E a \in DOMAIN circuits.val, b \in DOMAIN circuits.val :
       /\ circuits' = _connect(circuits, a, b)
       /\ connections' = Append(connections, <<a, b>>)
  /\ idx' = idx + 1
  /\ UNCHANGED <<not_day_08, data, query, pc, positions, limit, connecting, result, error>>

Next ==
  \/ ParseOk
  \/ ParseRaises
  \/ Setup1
  \/ Setup2
  \/ Step1
  \/ Score1
  \/ Step2
  \/ Exhaust2
  \/ Finish2
  \/ SetupUnions
  \/ Union

Spec == Init /\ [][Next]_vars

\* The forest alone: _connect called on arbitrary registered points in an
\* arbitrary order, starting from the mapping built from the parsed positions.
InitUnions == Init /\ query = "unions"

NextUnions ==
  \/ ParseOk
  \/ SetupUnions
  \/ Union

SpecUnions == InitUnions /\ [][NextUnions]_vars

\* Queries one after another on the same text, as the script's two calls do,
\* in any order and any number of times.  A call starts with no result; what
\* the earlier call left in its locals stays where it was until the new call
\* assigns it.
Call ==
  /\ query \in {"part1", "part2"}
  /\ pc \in {"done", "raised"}
  /\ query' \in {"part1", "part2"}
  /\ pc' = "start"
  /\ result' = None
  /\ error' = ""
  /\ UNCHANGED <<not_day_08, data, positions, circuits, connections, limit, idx, connecting>>

\* The texts the sequences of calls are run on.
SeqInputs ==
  { InputText(ps) : ps \in SmallInputs \cup {BridgeInput} } \cup OtherTexts

InitSeq == Init /\ query \in {"part1", "part2"} /\ data \in SeqInputs

NextSeq ==
  \/ ParseOk
  \/ ParseRaises
  \/ Setup1
  \/ Setup2
  \/ Step1
  \/ Score1
  \/ Step2
  \/ Exhaust2
  \/ Finish2
  \/ Call

SpecSeq == InitSeq /\ [][NextSeq]_vars

\* ------------------------------------------------------------------ day 1

\* solution_improved.py's configuration.
INITIAL_POSITION == 50
MAX_POSITION == 99
MIN_POSITION == 0
TOTAL_POSITIONS == 100

\* Longest enumerated rotation list, in lines.
MaxOps == 2

\* What a call gives: <<"", n>> when it returns n, <<exception>> when it raises.
Returns(n) == <<"", n>>

Raises(exception) == <<exception>>

\* str.startswith(ch) for a one-character prefix.
startswith(s, ch) == s # <<>> /\ s[1] = ch

\* str.upper() of one character, over the letters the inputs are written in.
LowerCase == <<"a", "b", "c", "l", "r", "x">>

UpperCase == <<"A", "B", "C", "L", "R", "X">>

upper(ch) ==
  IF \E k \in 1..Len(LowerCase) : LowerCase[k] = ch
    THEN UpperCase[CHOOSE k \in 1..Len(LowerCase) : LowerCase[k] = ch]
  ELSE ch

\* solution.py: int(line[1:]) raises on a line that starts with L or R.
IntRaises(line) ==
  (startswith(line, "L") \/ startswith(line, "R")) /\ ~IntOk(Tail(line))

\* solution.py solve_part_1, one line: the new initial_value.
Part1Turn(initial_value, line) ==
  IF startswith(line, "L")
    THEN LET click_value == int(Tail(line))
             difference  == initial_value - click_value
         IN IF difference < 0 THEN 99 + difference
            ELSE initial_value - click_value
  ELSE IF startswith(line, "R")
    THEN LET click_value == int(Tail(line))
             difference  == initial_value + click_value
         IN IF difference > 99 THEN difference - 100
            ELSE initial_value + click_value
  ELSE initial_value

RECURSIVE Part1Loop(_, _, _, _)
Part1Loop(lines, k, initial_value, count_zero) ==
  IF k > Len(lines) THEN Returns(count_zero)
  ELSE IF IntRaises(lines[k]) THEN Raises("ValueError")
  ELSE LET value == Part1Turn(initial_value, lines[k])
       IN Part1Loop(lines, k + 1, value,
                    IF value = 0 THEN count_zero + 1 ELSE count_zero)

\* solution.py solve_part_1, imported by the test as original_part1.
original_part1(text) == Part1Loop(split(strip(text), "\n"), 1, 50, 0)

\* solution.py solve_part_2, one line: the steps 1..click_value that land on 0
\* and the new initial_value.
Part2Turn(prev_value, line) ==
  IF startswith(line, "L")
    THEN LET click_value == int(Tail(line))
         IN [zeros |-> Cardinality({step \in 1..click_value :
                                      (prev_value - step) % 100 = 0}),
             value |-> (prev_value - click_value) % 100]
  ELSE IF startswith(line, "R")
    THEN LET click_value == int(Tail(line))
         IN [zeros |-> Cardinality({step \in 1..click_value :
                                      (prev_value + step) % 100 = 0}),
             value |-> (prev_value + click_value) % 100]
  ELSE [zeros |-> 0, value |-> prev_value]

RECURSIVE Part2Loop(_, _, _, _)
Part2Loop(lines, k, initial_value, count_zero) ==
  IF k > Len(lines) THEN Returns(count_zero)
  ELSE IF IntRaises(lines[k]) THEN Raises("ValueError")
  ELSE LET turn == Part2Turn(initial_value, lines[k])
       IN Part2Loop(lines, k + 1, turn.value, count_zero + turn.zeros)

\* solution.py solve_part_2, imported by the test as original_part2.
original_part2(text) == Part2Loop(split(strip(text), "\n"), 1, 50, 0)

\* Variant of ParseRotation: a negative value is let through.
ParseRotation_allows_negative(raw) ==
  LET line  == strip(raw)
      bad   == [err |-> "ValueError", skip |-> FALSE, operation |-> "", value |-> 0]
  IN IF line = <<>>
       THEN [err |-> "", skip |-> TRUE, operation |-> "", value |-> 0]
     ELSE IF Len(line) < 2 THEN bad
     ELSE IF ~IntOk(Tail(line)) THEN bad
     ELSE IF upper(line[1]) \notin {"L", "R"} THEN bad
     ELSE [err |-> "", skip |-> FALSE, operation |-> upper(line[1]),
           value |-> int(Tail(line))]

\* solution_improved.py parse_input, one line: skipped when blank, an error,
\* or the pair (operation, value).
ParseRotation(raw) ==
  LET line  == strip(raw)
      bad   == [err |-> "ValueError", skip |-> FALSE, operation |-> "", value |-> 0]
  IN IF line = <<>>
       THEN [err |-> "", skip |-> TRUE, operation |-> "", value |-> 0]
     ELSE IF Len(line) < 2 THEN bad
     ELSE IF ~IntOk(Tail(line)) THEN bad
     ELSE IF upper(line[1]) \notin {"L", "R"} THEN bad
     ELSE IF int(Tail(line)) < 0 THEN bad
     ELSE [err |-> "", skip |-> FALSE, operation |-> upper(line[1]),
           value |-> int(Tail(line))]

\* solution_improved.py parse_input: [err, operations].
day_01_parse_input(text) ==
  LET lines  == split(strip(text), "\n")
      parsed == [k \in 1..Len(lines) |-> ParseRotation(lines[k])]
      kept   == SelectSeq(parsed, LAMBDA r : ~r.skip)
  IN IF \E k \in 1..Len(lines) : parsed[k].err # ""
       THEN [err |-> "ValueError", operations |-> <<>>]
     ELSE [err |-> "",
           operations |-> [k \in 1..Len(kept) |->
                             <<kept[k].operation, kept[k].value>>]]

\* Variant of CircularDial.__init__: the range of initial_position is not checked.
CircularDial_unchecked(initial_position) ==
  [err |-> "", position |-> initial_position, zero_count |-> 0]

\* CircularDial.__init__: [err, position, zero_count].
CircularDial(initial_position) ==
  IF ~(MIN_POSITION <= initial_position /\ initial_position <= MAX_POSITION)
    THEN [err |-> "ValueError", position |-> initial_position, zero_count |-> 0]
  ELSE [err |-> "", position |-> initial_position, zero_count |-> 0]

\* Variant of rotate_left: the dial is moved before the sign of steps is tested.
rotate_left_moves_first(dial, steps) ==
  LET moved == [dial EXCEPT
                  !.zero_count = @ + Cardinality({step \in 1..steps :
                                       (dial.position - step) % TOTAL_POSITIONS = 0}),
                  !.position = (dial.position - steps) % TOTAL_POSITIONS]
  IN IF steps < 0 THEN [moved EXCEPT !.err = "DialRotationError"] ELSE moved

\* CircularDial.rotate_left and rotate_right.
rotate_left(dial, steps) ==
  IF steps < 0 THEN [dial EXCEPT !.err = "DialRotationError"]
  ELSE [dial EXCEPT
          !.zero_count = @ + Cardinality({step \in 1..steps :
                               (dial.position - step) % TOTAL_POSITIONS = 0}),
          !.position = (dial.position - steps) % TOTAL_POSITIONS]

rotate_right(dial, steps) ==
  IF steps < 0 THEN [dial EXCEPT !.err = "DialRotationError"]
  ELSE [dial EXCEPT
          !.zero_count = @ + Cardinality({step \in 1..steps :
                               (dial.position + step) % TOTAL_POSITIONS = 0}),
          !.position = (dial.position + steps) % TOTAL_POSITIONS]

\* solve_part_1_optimized's loop over the operations from the k-th on.
RECURSIVE Part1OptimizedLoop(_, _, _)
Part1OptimizedLoop(operations, k, dial) ==
  IF k > Len(operations) THEN dial
  ELSE LET steps == operations[k][2]
           position == IF operations[k][1] = "L"
                         THEN (dial.position - steps) % TOTAL_POSITIONS
                       ELSE (dial.position + steps) % TOTAL_POSITIONS
       IN Part1OptimizedLoop(operations, k + 1,
            [dial EXCEPT !.position = position,
                         !.zero_count = IF position = 0 THEN @ + 1 ELSE @])

solve_part_1_optimized(text) ==
  LET parsed == day_01_parse_input(text)
  IN IF parsed.err # "" THEN Raises(parsed.err)
     ELSE Returns(Part1OptimizedLoop(parsed.operations, 1,
                                     CircularDial(INITIAL_POSITION)).zero_count)

\* solve_part_2_optimized's loop over the operations from the k-th on.
RECURSIVE Part2OptimizedLoop(_, _, _)
Part2OptimizedLoop(operations, k, dial) ==
  IF k > Len(operations) \/ dial.err # "" THEN dial
  ELSE Part2OptimizedLoop(operations, k + 1,
         IF operations[k][1] = "L" THEN rotate_left(dial, operations[k][2])
         ELSE rotate_right(dial, operations[k][2]))

solve_part_2_optimized(text) ==
  LET parsed == day_01_parse_input(text)
      dial   == Part2OptimizedLoop(parsed.operations, 1,
                                   CircularDial(INITIAL_POSITION))
  IN IF parsed.err # "" THEN Raises(parsed.err)
     ELSE IF dial.err # "" THEN Raises(dial.err)
     ELSE Returns(dial.zero_count)

\* Variant of _count_zeros_in_rotation: only whole turns of the dial count.
_count_zeros_whole_turns(start_pos, steps, direction) ==
  steps \div TOTAL_POSITIONS

\* _count_zeros_in_rotation: the steps of one rotation that land on 0.
_count_zeros_in_rotation(start_pos, steps, direction) ==
  IF steps = 0 THEN 0
  ELSE IF direction = "L"
    THEN Cardinality({step \in 1..steps :
                        (start_pos - step) % TOTAL_POSITIONS = 0})
  ELSE Cardinality({step \in 1..steps :
                      (start_pos + step) % TOTAL_POSITIONS = 0})

\* solve_part_2_mathematical's loop over the operations from the k-th on.
RECURSIVE Part2MathematicalLoop(_, _, _, _)
Part2MathematicalLoop(operations, k, position, total_zeros) ==
  IF k > Len(operations) THEN total_zeros
  ELSE LET operation == operations[k][1]
           steps     == operations[k][2]
       IN Part2MathematicalLoop(operations, k + 1,
            IF operation = "L" THEN (position - steps) % TOTAL_POSITIONS
            ELSE (position + steps) % TOTAL_POSITIONS,
            total_zeros + _count_zeros_in_rotation(position, steps, operation))

solve_part_2_mathematical(text) ==
  LET parsed == day_01_parse_input(text)
  IN IF parsed.err # "" THEN Raises(parsed.err)
     ELSE Returns(Part2MathematicalLoop(parsed.operations, 1, INITIAL_POSITION, 0))

\* The step counts the enumerated rotation lists are made of: none, one, a
\* half turn (from 50 onto 0), one short of a turn, a turn, a turn and a half.
StepCounts == {0, 1, 50, 99, 100, 150}

Rotations == {"L", "R"} \X StepCounts

RotationLists == UNION {[1..n -> Rotations] : n \in 1..MaxOps}

\* A rotation list written out, one line per rotation: "L50\nR150".
RECURSIVE RotationText(_)
RotationText(ops) ==
  IF ops = <<>> THEN <<>>
  ELSE LET last == ops[Len(ops)]
           line == <<last[1]>> \o NatText(last[2])
       IN IF Len(ops) = 1 THEN line
          ELSE RotationText(SubSeq(ops, 1, Len(ops) - 1)) \o <<"\n">> \o line

RotationTexts == {RotationText(ops) : ops \in RotationLists}

\* The test's rejected inputs, and texts the two parsers read differently.
OtherRotationTexts ==
  { <<>>,
    <<"X", "5">>,
    <<"L", "a", "b", "c">>,
    <<"L", "-", "5">>,
    <<"L", "\n", "R", "\n">>,
    <<"l", "5", "0">>,
    <<" ", "R", "5", "0">>,
    <<"R", "5", "0", "\n", "\n", "L", "5", "0">>,
    <<"R", "5", "\n", "L", "3", "\n", "R", "2", "\n", "L", "1", "\n">>,
    <<"R", "5", "0", "\n", "X", "5">>,
    <<"L", "-", "5", "\n", "R", "5", "0">>,
    <<"R", "5", "0", "\n", "L">>,
    <<"R", "5", "0", "\n", "R", "5", "x">> }

\* The test script: every solver is called on the same sample_data.
InitDay01 ==
  /\ sample_data \in RotationTexts \cup OtherRotationTexts
  /\ original_result1 = None
  /\ improved_result1 = None
  /\ original_result2 = None
  /\ improved_result2_sim = None
  /\ improved_result2_math = None
  /\ day_08_idle
  /\ dial_object_idle
  /\ day_04_idle
  /\ day_05_idle
  /\ day_03_idle
  /\ day_07_idle

OriginalPart1 ==
  /\ original_result1 = None
  /\ original_result1' = original_part1(sample_data)
  /\ UNCHANGED <<not_day_01, sample_data, improved_result1, original_result2,
                 improved_result2_sim, improved_result2_math>>

ImprovedPart1 ==
  /\ improved_result1 = None
  /\ improved_result1' = solve_part_1_optimized(sample_data)
  /\ UNCHANGED <<not_day_01, sample_data, original_result1, original_result2,
                 improved_result2_sim, improved_result2_math>>

OriginalPart2 ==
  /\ original_result2 = None
  /\ original_result2' = original_part2(sample_data)
  /\ UNCHANGED <<not_day_01, sample_data, original_result1, improved_result1,
                 improved_result2_sim, improved_result2_math>>

ImprovedPart2Sim ==
  /\ improved_result2_sim = None
  /\ improved_result2_sim' = solve_part_2_optimized(sample_data)
  /\ UNCHANGED <<not_day_01, sample_data, original_result1, improved_result1,
                 original_result2, improved_result2_math>>

ImprovedPart2Math ==
  /\ improved_result2_math = None
  /\ improved_result2_math' = solve_part_2_mathematical(sample_data)
  /\ UNCHANGED <<not_day_01, sample_data, original_result1, improved_result1,
                 original_result2, improved_result2_sim>>

NextDay01 ==
  \/ OriginalPart1
  \/ ImprovedPart1
  \/ OriginalPart2
  \/ ImprovedPart2Sim
  \/ ImprovedPart2Math

SpecDay01 == InitDay01 /\ [][NextDay01]_vars

\* ------------------------------------------------------- day 1, the dial

\* Most zero crossings a dial has counted when it is rotated again.
MaxZeroCount == 3

\* The arguments the dial is constructed and rotated with.
InitialPositions == {-1, 0, 1, 50, 99, 100}

DialSteps == {-1, 0, 1, 50, 99, 100, 150}

\* A caller of CircularDial: one object is constructed, then rotated left and
\* right in any order; a DialRotationError is caught and the object used again.
\* dial_state.err is what the last call raised, "" when it returned.
InitDial ==
  /\ dial_object_idle
  /\ day_04_idle
  /\ day_05_idle
  /\ day_03_idle
  /\ day_07_idle
  /\ day_08_idle
  /\ day_01_idle

Construct ==
  /\ dial_state.err = "unbuilt"
  /\ \E initial_position \in InitialPositions :
       /\ dial_state' = CircularDial(initial_position)
       /\ dial_call' = <<"__init__", initial_position>>
  /\ UNCHANGED not_dial_object

RotateLeft ==
  /\ dial_state.err \in {"", "DialRotationError"}
  /\ dial_state.zero_count < MaxZeroCount
  /\ \E steps \in DialSteps :
       /\ dial_state' = rotate_left([dial_state EXCEPT !.err = ""], steps)
       /\ dial_call' = <<"rotate_left", steps>>
  /\ UNCHANGED not_dial_object

RotateRight ==
  /\ dial_state.err \in {"", "DialRotationError"}
  /\ dial_state.zero_count < MaxZeroCount
  /\ \E steps \in DialSteps :
       /\ dial_state' = rotate_right([dial_state EXCEPT !.err = ""], steps)
       /\ dial_call' = <<"rotate_right", steps>>
  /\ UNCHANGED not_dial_object

NextDial ==
  \/ Construct
  \/ RotateLeft
  \/ RotateRight

SpecDial == InitDial /\ [][NextDial]_vars

\* ------------------------------------------------------------------ day 7
\* (src/2025/src/day_07/solution.py, solve_part_1): beams fall through a
\* manifold of '.', '^' and one 'S'.  Coordinates are the code's: x and y
\* count from 0.

\* Most rows below the row of S, and the width of the enumerated manifolds.
MaxRows == 3

ManifoldWidth == 3

\* manifold = data.strip().split('\n'), H and W.
Manifold(text) == split(strip(text), "\n")

ManifoldH(grid) == Len(grid)

ManifoldW(grid) == Len(grid[1])

\* manifold[y][x]
CellAt(grid, x, y) == grid[y + 1][x + 1]

\* The rows that hold an 'S'; the first of them gives sy, and row.index('S')
\* gives sx.
RowsWithS(grid) ==
  {y \in 0..(Len(grid) - 1) :
     \E x \in 0..(Len(grid[y + 1]) - 1) : grid[y + 1][x + 1] = "S"}

StartY(grid) ==
  CHOOSE y \in RowsWithS(grid) : \A z \in RowsWithS(grid) : y <= z

StartX(grid) ==
  LET row == grid[StartY(grid) + 1]
      at  == {x \in 0..(Len(row) - 1) : row[x + 1] = "S"}
  IN CHOOSE x \in at : \A z \in at : x <= z

\* The enumerated manifolds: a first row without S, or with S at its left
\* end or one cell from its right end, then up to MaxRows rows of '.' and '^'.
FirstRows ==
  {[x \in 1..ManifoldWidth |-> IF x = place THEN "S" ELSE "."] :
     place \in 0..(ManifoldWidth - 1)}

LowerRows == [1..ManifoldWidth -> {".", "^"}]

Manifolds ==
  UNION {{<<first>> \o lower : first \in FirstRows, lower \in [1..n -> LowerRows]} :
           n \in 0..MaxRows}

\* A grid written out, one row per line.
RECURSIVE ManifoldText(_)
ManifoldText(rows) ==
  IF rows = <<>> THEN <<>>
  ELSE IF Len(rows) = 1 THEN rows[1]
  ELSE ManifoldText(SubSeq(rows, 1, Len(rows) - 1)) \o <<"\n">> \o rows[Len(rows)]

InitDay07 ==
  /\ manifold_data \in {ManifoldText(rows) : rows \in Manifolds}
  /\ beam_pc = "start"
  /\ manifold = <<>>
  /\ active = {}
  /\ splits = 0
  /\ manifold_result = None
  /\ dial_object_idle
  /\ day_04_idle
  /\ day_05_idle
  /\ day_03_idle
  /\ day_08_idle
  /\ day_01_idle

\* solve_part_1 up to its while loop: find S, or raise ValueError.
FindStart ==
  /\ beam_pc = "start"
  /\ manifold' = Manifold(manifold_data)
  /\ IF RowsWithS(manifold') = {}
       THEN /\ manifold_result' = Raises("ValueError")
            /\ beam_pc' = "raised"
            /\ UNCHANGED <<active, splits>>
     ELSE /\ active' = IF StartY(manifold') + 1 < ManifoldH(manifold')
                         THEN {<<StartX(manifold'), StartY(manifold') + 1>>}
                       ELSE {}
          /\ splits' = 0
          /\ beam_pc' = "loop"
          /\ UNCHANGED manifold_result
  /\ UNCHANGED <<not_day_07, manifold_data>>

\* Variant of MoveBeams: every new beam a splitter sends out is counted.
MoveBeams_counts_new_beams ==
  /\ beam_pc = "loop"
  /\ active # {}
  /\ LET H == ManifoldH(manifold)
         W == ManifoldW(manifold)
         inside == {p \in active : 0 <= p[1] /\ p[1] < W /\ 0 <= p[2] /\ p[2] < H}
         split_events == {p \in inside : CellAt(manifold, p[1], p[2]) = "^"}
         down  == {<<p[1], p[2] + 1>> : p \in {q \in inside \ split_events : q[2] + 1 < H}}
         left  == {<<p[1] - 1, p[2] + 1>> :
                     p \in {q \in split_events : q[2] + 1 < H /\ q[1] - 1 >= 0}}
         right == {<<p[1] + 1, p[2] + 1>> :
                     p \in {q \in split_events : q[2] + 1 < H /\ q[1] + 1 < W}}
     IN /\ splits' = splits + 2 * Cardinality(split_events)
        /\ active' = down \cup left \cup right
  /\ UNCHANGED <<not_day_07, manifold_data, beam_pc, manifold, manifold_result>>

\* One iteration of the while loop: the beams on splitters are collected in
\* split_events and counted, the others move down, and every splitter hit
\* sends a beam down-left and down-right.
MoveBeams ==
  /\ beam_pc = "loop"
  /\ active # {}
  /\ LET H == ManifoldH(manifold)
         W == ManifoldW(manifold)
         inside == {p \in active : 0 <= p[1] /\ p[1] < W /\ 0 <= p[2] /\ p[2] < H}
         split_events == {p \in inside : CellAt(manifold, p[1], p[2]) = "^"}
         down  == {<<p[1], p[2] + 1>> : p \in {q \in inside \ split_events : q[2] + 1 < H}}
         left  == {<<p[1] - 1, p[2] + 1>> :
                     p \in {q \in split_events : q[2] + 1 < H /\ q[1] - 1 >= 0}}
         right == {<<p[1] + 1, p[2] + 1>> :
                     p \in {q \in split_events : q[2] + 1 < H /\ q[1] + 1 < W}}
     IN /\ splits' = splits + Cardinality(split_events)
        /\ active' = down \cup left \cup right
  /\ UNCHANGED <<not_day_07, manifold_data, beam_pc, manifold, manifold_result>>

\* The loop ends when no beam is left: return splits.
ReturnSplits ==
  /\ beam_pc = "loop"
  /\ active = {}
  /\ manifold_result' = Returns(splits)
  /\ beam_pc' = "done"
  /\ UNCHANGED <<not_day_07, manifold_data, manifold, active, splits>>

NextDay07 ==
  \/ FindStart
  \/ MoveBeams
  \/ ReturnSplits

SpecDay07 == InitDay07 /\ [][NextDay07]_vars

\* =================================================================== day 3
\* solve_part_2 of src/src/day_03/solution.py: every line is a bank of
\* batteries, one digit each; a bank of more than twelve batteries gives the
\* twelve digits picked by the greedy selection, a smaller bank all its
\* digits, and the numbers so formed are added up.

\* The number of batteries switched on in a bank.
SelectCount == 12

\* Lines have up to SelectCount + MaxExtra digits.
MaxExtra == 2

\* A Python int that may pass 2^31 is kept in two limbs <<hi, lo>>, its value
\* hi * Limb + lo with 0 <= lo < Limb.
Limb == 1000000

\* int(text) of one to twelve digits.
BigInt(text) ==
  LET n   == Len(text)
      cut == IF n > 6 THEN n - 6 ELSE 0
  IN <<DigitsVal(SubSeq(text, 1, cut)), DigitsVal(SubSeq(text, cut + 1, n))>>

BigAdd(u, v) ==
  LET lo == u[2] + v[2]
  IN <<u[1] + v[1] + (lo \div Limb), lo % Limb>>

BigLeq(u, v) == u[1] < v[1] \/ (u[1] = v[1] /\ u[2] <= v[2])

\* "".join(map(str, digits))
JoinDigits(digits) == [k \in 1..Len(digits) |-> Digits[digits[k] + 1]]

\* max(window)
MaxOf(window) ==
  CHOOSE m \in {window[k] : k \in 1..Len(window)} :
    \A k \in 1..Len(window) : window[k] <= m

\* window.index(value), taking the last occurrence instead of the first.
IndexOf_last(window, value) ==
  (CHOOSE k \in 1..Len(window) :
     window[k] = value /\ \A j \in (k + 1)..Len(window) : window[j] # value) - 1

\* window.index(value): the first occurrence, counted from 0.
IndexOf(window, value) ==
  (CHOOSE k \in 1..Len(window) :
     window[k] = value /\ \A j \in 1..(k - 1) : window[j] # value) - 1

\* The enumerated banks: up to three runs of equal ratings.
BatteryDigits == {"1", "5", "9"}

Repeat(ch, k) == [i \in 1..k |-> ch]

BankLines(n) ==
  {Repeat(r[1], c[1]) \o Repeat(r[2], c[2]) \o Repeat(r[3], n - c[1] - c[2]) :
     r \in BatteryDigits \X BatteryDigits \X BatteryDigits,
     c \in {d \in (0..n) \X (0..n) : d[1] + d[2] <= n}}

LongBanks == UNION {BankLines(n) : n \in (SelectCount + 1)..(SelectCount + MaxExtra)}

ShortBanks == UNION {BankLines(n) : n \in 1..SelectCount}

\* Texts of several lines, of ratings with a zero, and texts that are not
\* banks: empty, a blank line between banks, a letter, a space inside a line.
SampleBanks ==
  { <<"9", "1", "5">>,
    <<"1", "9", "1", "9", "1", "9", "1", "9", "1", "9", "1", "9", "1">>,
    <<"5", "1", "9", "5", "1", "9", "5", "1", "9", "5", "1", "9", "5", "1">>,
    <<"0", "0", "0", "0", "0", "0", "0", "0", "0", "0", "0", "0", "1">>,
    <<"9", "0", "9", "0", "9", "0", "9", "0", "9", "0", "9", "0", "9", "0">>,
    <<"0", "0", "7">>,
    <<>>,
    <<"1", "2", "a">>,
    <<"1", " ", "2">> }

BatteryTexts ==
  LongBanks \cup ShortBanks \cup SampleBanks
    \cup {a \o <<"\n">> \o b : a \in SampleBanks, b \in SampleBanks}
    \cup {a \o <<"\n">> : a \in SampleBanks}
    \cup {<<" ">> \o a \o <<" ", "\n">> \o b \o <<"\n">> \o a :
            a \in SampleBanks, b \in SampleBanks}

InitDay03 ==
  /\ battery_data \in BatteryTexts
  /\ bank_pc = "called"
  /\ banks = <<>>
  /\ bank_idx = 0
  /\ batteries = <<>>
  /\ start_idx = 0
  /\ remaining_positions = 0
  /\ voltage_str = <<>>
  /\ total_output_voltage = <<0, 0>>
  /\ battery_result = <<>>
  /\ day_08_idle
  /\ day_01_idle
  /\ dial_object_idle
  /\ day_04_idle
  /\ day_05_idle
  /\ day_07_idle

\* lines = data.strip().split('\n'); total_output_voltage = 0
ReadBanks ==
  /\ bank_pc = "called"
  /\ banks' = split(strip(battery_data), "\n")
  /\ bank_idx' = 0
  /\ total_output_voltage' = <<0, 0>>
  /\ bank_pc' = "line"
  /\ UNCHANGED <<not_day_03, battery_data, batteries, start_idx,
                 remaining_positions, voltage_str, battery_result>>

\* The head of one iteration of `for line in lines`: the ratings of the line,
\* then all of them when there are at most twelve, or the start of the
\* selection.  voltage_str holds `result` while the selection runs.
NextBank ==
  /\ bank_pc = "line"
  /\ bank_idx < Len(banks)
  /\ LET line == strip(banks[bank_idx + 1])
         n    == Len(line)
     IN IF \E k \in 1..n : ~IsDigit(line[k])
          THEN /\ battery_result' = Raises("ValueError")
               /\ bank_pc' = "raised"
               /\ UNCHANGED <<batteries, start_idx, remaining_positions, voltage_str>>
        ELSE /\ batteries' = [k \in 1..n |-> DigitVal(line[k])]
             /\ UNCHANGED battery_result
             /\ IF n <= SelectCount
                  THEN /\ voltage_str' = JoinDigits(batteries')
                       /\ bank_pc' = "add"
                       /\ UNCHANGED <<start_idx, remaining_positions>>
                ELSE /\ voltage_str' = <<>>
                     /\ start_idx' = 0
                     /\ remaining_positions' = SelectCount
                     /\ bank_pc' = "select"
  /\ UNCHANGED <<not_day_03, battery_data, banks, bank_idx, total_output_voltage>>

\* One iteration of `for pos in range(12)`: the largest rating that leaves
\* enough batteries for the positions still to fill, at its first place.
SelectDigit ==
  /\ bank_pc = "select"
  /\ LET n         == Len(batteries)
         end_idx   == n - remaining_positions + 1
         window    == SubSeq(batteries, start_idx + 1, end_idx)
         max_digit == MaxOf(window)
         max_idx   == IndexOf(window, max_digit) + start_idx
     IN /\ voltage_str' = Append(voltage_str, Digits[max_digit + 1])
        /\ start_idx' = max_idx + 1
        /\ remaining_positions' = remaining_positions - 1
        /\ bank_pc' = IF start_idx' >= n \/ remaining_positions' = 0
                        THEN "add" ELSE "select"
  /\ UNCHANGED <<not_day_03, battery_data, banks, bank_idx, batteries,
                 total_output_voltage, battery_result>>

\* voltage_int = int(voltage_str); total_output_voltage += voltage_int
AddVoltage ==
  /\ bank_pc = "add"
  /\ IF voltage_str = <<>>
       THEN /\ battery_result' = Raises("ValueError")
            /\ bank_pc' = "raised"
            /\ UNCHANGED <<bank_idx, total_output_voltage>>
     ELSE /\ total_output_voltage' = BigAdd(total_output_voltage, BigInt(voltage_str))
          /\ bank_idx' = bank_idx + 1
          /\ bank_pc' = "line"
          /\ UNCHANGED battery_result
  /\ UNCHANGED <<not_day_03, battery_data, banks, batteries, start_idx,
                 remaining_positions, voltage_str>>

\* return total_output_voltage
ReturnTotal ==
  /\ bank_pc = "line"
  /\ bank_idx = Len(banks)
  /\ battery_result' = Returns(total_output_voltage)
  /\ bank_pc' = "done"
  /\ UNCHANGED <<not_day_03, battery_data, banks, bank_idx, batteries, start_idx,
                 remaining_positions, voltage_str, total_output_voltage>>

NextDay03 ==
  \/ ReadBanks
  \/ NextBank
  \/ SelectDigit
  \/ AddVoltage
  \/ ReturnTotal

SpecDay03 == InitDay03 /\ [][NextDay03]_vars

\* =================================================================== day 5
\* solve_part_2 of src/2025/src/day_05/solution.py: the lines with a hyphen
\* are inclusive ranges of ids; the ranges are scanned in sorted order and
\* the ids they cover are counted.

\* Ids of the enumerated ranges run from 0 to MaxId, in up to MaxRanges ranges.
MaxId == 4

MaxRanges == 3

\* Python's order of lists: by the first place where they differ, a proper
\* prefix first.
ListLeq(u, v) ==
  LET common == IF Len(u) < Len(v) THEN Len(u) ELSE Len(v)
      differ == {k \in 1..common : u[k] # v[k]}
  IN IF differ = {} THEN Len(u) <= Len(v)
     ELSE LET first == CHOOSE k \in differ : \A j \in differ : k <= j
          IN u[first] < v[first]

\* sorted(lists)
RECURSIVE InsertList(_, _)
InsertList(lists, x) ==
  IF lists = <<>> THEN <<x>>
  ELSE IF ListLeq(lists[Len(lists)], x) THEN Append(lists, x)
  ELSE Append(InsertList(SubSeq(lists, 1, Len(lists) - 1), x), lists[Len(lists)])

RECURSIVE SortLists(_)
SortLists(lists) ==
  IF lists = <<>> THEN <<>>
  ELSE InsertList(SortLists(SubSeq(lists, 1, Len(lists) - 1)), lists[Len(lists)])

\* The lines of the text that hold a hyphen, each split at its hyphens.
HyphenLines(text) ==
  LET lines == split(strip(text), "\n")
  IN SelectSeq([k \in 1..Len(lines) |-> split(lines[k], "-")],
               LAMBDA parts : Len(parts) > 1)

\* The enumerated texts: ranges start-end with 0 <= start <= end <= MaxId in
\* any order, alone or followed by the blank line and the ids of part 1; and
\* texts that are not such lists.
IdRanges == {r \in (0..MaxId) \X (0..MaxId) : r[1] <= r[2]}

RangeLists == UNION {[1..n -> IdRanges] : n \in 0..MaxRanges}

RECURSIVE RangeText(_)
RangeText(ranges) ==
  IF ranges = <<>> THEN <<>>
  ELSE LET last == ranges[Len(ranges)]
           line == NatText(last[1]) \o <<"-">> \o NatText(last[2])
       IN IF Len(ranges) = 1 THEN line
          ELSE RangeText(SubSeq(ranges, 1, Len(ranges) - 1)) \o <<"\n">> \o line

OtherRangeTexts ==
  { <<"3", "-", "5", "\n", "1", "0", "-", "1", "4", "\n", "1", "6", "-", "2", "0",
      "\n", "1", "2", "-", "1", "8", "\n", "\n", "1", "\n", "5", "\n", "8">>,
    <<"1", "-", "3", "\n", "\n", "2", "\n">>,
    <<"5", "-", "3">>,
    <<"2", "-", "4", "\n", "5", "-", "3">>,
    <<"-", "3", "-", "5">>,
    <<"1", "-", "2", "-", "3">>,
    <<"1", "-", "x">>,
    <<" ", "1", " ", "-", " ", "3", " ">> }

RangeTexts == {RangeText(ranges) : ranges \in RangeLists} \cup OtherRangeTexts

InitDay05 ==
  /\ range_data \in RangeTexts
  /\ range_pc = "called"
  /\ fresh_ranges = <<>>
  /\ sorted_ranges = <<>>
  /\ highest = 0
  /\ a_total = 0
  /\ range_result = <<>>
  /\ day_08_idle
  /\ day_01_idle
  /\ dial_object_idle
  /\ day_04_idle
  /\ day_07_idle
  /\ day_03_idle

\* fresh_ranges, highest, a = [], 0, 0 and the parsing loop: int() of every
\* piece of every line with a hyphen.
ParseRanges ==
  /\ range_pc = "called"
  /\ LET pieces == HyphenLines(range_data)
     IN IF \E k \in 1..Len(pieces) : \E j \in 1..Len(pieces[k]) : ~IntOk(pieces[k][j])
          THEN /\ range_result' = Raises("ValueError")
               /\ range_pc' = "raised"
               /\ UNCHANGED <<fresh_ranges, sorted_ranges>>
        ELSE /\ fresh_ranges' =
                  [k \in 1..Len(pieces) |->
                     [j \in 1..Len(pieces[k]) |-> int(pieces[k][j])]]
             /\ sorted_ranges' = SortLists(fresh_ranges')
             /\ range_pc' = "scan"
             /\ UNCHANGED range_result
  /\ highest' = 0
  /\ a_total' = 0
  /\ UNCHANGED <<not_day_05, range_data>>

\* One iteration of `for start, end in sorted(fresh_ranges)`.
ScanRange ==
  /\ range_pc = "scan"
  /\ sorted_ranges # <<>>
  /\ LET item == Head(sorted_ranges)
     IN IF Len(item) # 2
          THEN /\ range_result' = Raises("ValueError")
               /\ range_pc' = "raised"
               /\ UNCHANGED <<sorted_ranges, highest, a_total>>
        ELSE LET start == item[1]
                 end   == item[2]
             IN /\ a_total' = IF start > highest THEN a_total + end - start + 1
                              ELSE IF end > highest THEN a_total + end - highest
                              ELSE a_total
                /\ highest' = IF highest > end THEN highest ELSE end
                /\ sorted_ranges' = Tail(sorted_ranges)
                /\ UNCHANGED <<range_pc, range_result>>
  /\ UNCHANGED <<not_day_05, range_data, fresh_ranges>>

\* return a
ReturnCount ==
  /\ range_pc = "scan"
  /\ sorted_ranges = <<>>
  /\ range_result' = Returns(a_total)
  /\ range_pc' = "done"
  /\ UNCHANGED <<not_day_05, range_data, fresh_ranges, sorted_ranges, highest, a_total>>

NextDay05 ==
  \/ ParseRanges
  \/ ScanRange
  \/ ReturnCount

SpecDay05 == InitDay05 /\ [][NextDay05]_vars

\* =================================================================== day 4
\* solve_part_2 of src/2025/src/day_04/solution.py: a grid of rolls of paper
\* '@'; round after round every roll with fewer than four rolls among its
\* eight neighbours is removed, until a round finds none.

\* The enumerated grids: every grid of up to SmallSide rows and columns, and
\* the grids of DenseSide rows and columns with at most MaxGaps empty cells.
SmallSide == 3

DenseSide == 4

MaxGaps == 3

directions ==
  << <<-1, -1>>, <<-1, 0>>, <<-1, 1>>, <<0, -1>>, <<0, 1>>, <<1, -1>>, <<1, 0>>, <<1, 1>> >>

\* count_adjacent_rolls(x, y) on the grid g: x is the row, y the column, from 0.
count_adjacent_rolls(g, x, y) ==
  Cardinality({k \in 1..Len(directions) :
                 LET nx == x + directions[k][1]
                     ny == y + directions[k][2]
                 IN /\ 0 <= nx /\ nx < Len(g)
                    /\ 0 <= ny /\ ny < Len(g[1])
                    /\ g[nx + 1][ny + 1] = "@"})

\* The cells the two scanning loops visit.
GridCells(g) == (0..(Len(g) - 1)) \X (0..(Len(g[1]) - 1))

RollCells(g) == {c \in GridCells(g) : g[c[1] + 1][c[2] + 1] = "@"}

\* for i, j in accessible_rolls: grid[i][j] = '.'
RemoveRolls(g, cells) ==
  [i \in 1..Len(g) |->
     [j \in 1..Len(g[i]) |-> IF <<i - 1, j - 1>> \in cells THEN "." ELSE g[i][j]]]

\* The rolls a round removes when each roll is taken off the grid as soon as
\* the scan finds it accessible: the scan goes row by row, cell number k is
\* row k \div width, column k % width.
RECURSIVE ScanRemoving(_, _)
ScanRemoving(g, k) ==
  IF k >= Len(g) * Len(g[1]) THEN g
  ELSE LET x == k \div Len(g[1])
           y == k % Len(g[1])
       IN CHOOSE after \in
            {ScanRemoving(next, k + 1) :
               next \in {IF g[x + 1][y + 1] = "@" /\ count_adjacent_rolls(g, x, y) < 4
                           THEN RemoveRolls(g, {<<x, y>>}) ELSE g}} : TRUE

accessible_rolls_removed_while_scanning(g) ==
  {c \in RollCells(g) : ScanRemoving(g, 0)[c[1] + 1][c[2] + 1] = "."}

\* accessible_rolls after the scan of one round.
accessible_rolls(g) ==
  {c \in RollCells(g) : count_adjacent_rolls(g, c[1], c[2]) < 4}

AllGrids(h, w) == [1..h -> [1..w -> {".", "@"}]]

SmallGrids == UNION {AllGrids(h, w) : h \in 1..SmallSide, w \in 1..SmallSide}

GapSets ==
  {{}} \cup {{gaps[k] : k \in 1..MaxGaps} :
               gaps \in [1..MaxGaps -> (1..DenseSide) \X (1..DenseSide)]}

DenseGrids ==
  {[i \in 1..DenseSide |->
      [j \in 1..DenseSide |-> IF <<i, j>> \in gaps THEN "." ELSE "@"]] :
     gaps \in GapSets}

\* A grid written out, one row per line.
RECURSIVE GridText(_)
GridText(rows) ==
  IF rows = <<>> THEN <<>>
  ELSE IF Len(rows) = 1 THEN rows[1]
  ELSE GridText(SubSeq(rows, 1, Len(rows) - 1)) \o <<"\n">> \o rows[Len(rows)]

\* Texts that are not written-out grids of '.' and '@': empty, a cell marked
\* as in the output of part 1, blank space around the grid.
OtherRollTexts ==
  { <<>>,
    <<"@", "x", "@", "\n", "@", "@", "@", "\n", "x", "@", "@">>,
    <<"\n", "@", "@", "\n", "@", "@", "\n">> }

RollTexts == {GridText(g) : g \in SmallGrids \cup DenseGrids} \cup OtherRollTexts

InitDay04 ==
  /\ roll_data \in RollTexts
  /\ roll_pc = "called"
  /\ roll_grid = <<>>
  /\ round = 0
  /\ total_removed = 0
  /\ roll_result = <<>>
  /\ day_08_idle
  /\ day_01_idle
  /\ dial_object_idle
  /\ day_07_idle
  /\ day_03_idle
  /\ day_05_idle

\* lines = data.strip().split('\n'); grid = [list(line) for line in lines];
\* total_removed = 0
ReadGrid ==
  /\ roll_pc = "called"
  /\ roll_grid' = split(strip(roll_data), "\n")
  /\ total_removed' = 0
  /\ round' = 0
  /\ roll_pc' = "loop"
  /\ UNCHANGED <<not_day_04, roll_data, roll_result>>

\* One iteration of `while True` that finds accessible rolls: all of them are
\* removed and counted.
RemoveRound ==
  /\ roll_pc = "loop"
  /\ accessible_rolls(roll_grid) # {}
  /\ roll_grid' = RemoveRolls(roll_grid, accessible_rolls(roll_grid))
  /\ total_removed' = total_removed + Cardinality(accessible_rolls(roll_grid))
  /\ round' = round + 1
  /\ UNCHANGED <<not_day_04, roll_data, roll_pc, roll_result>>

\* The iteration that never leaves the loop while a roll is left.
LastRound_when_no_roll_is_left ==
  /\ roll_pc = "loop"
  /\ RollCells(roll_grid) = {}
  /\ round' = round + 1
  /\ roll_result' = Returns(total_removed)
  /\ roll_pc' = "done"
  /\ UNCHANGED <<not_day_04, roll_data, roll_grid, total_removed>>

\* The iteration that finds no accessible roll: break, return total_removed.
LastRound ==
  /\ roll_pc = "loop"
  /\ accessible_rolls(roll_grid) = {}
  /\ round' = round + 1
  /\ roll_result' = Returns(total_removed)
  /\ roll_pc' = "done"
  /\ UNCHANGED <<not_day_04, roll_data, roll_grid, total_removed>>

NextDay04 ==
  \/ ReadGrid
  \/ RemoveRound
  \/ LastRound

SpecDay04 == InitDay04 /\ [][NextDay04]_vars

\* The interpreter runs the call to its end: a step that can be taken is taken.
SpecDay04Fair == SpecDay04 /\ WF_vars(NextDay04)

\* ------------------------------------------------------------ observations

\* The mapping exists from the set-up of a query on.
HasCircuits == pc \in {"loop", "after_loop", "done", "forest"}

\* A step that passed a pair to _connect: the pair is connections'[idx'].
EdgeStep == pc \in {"loop", "forest"} /\ idx' = idx + 1

Registered(d) == {d.keys[k] : k \in 1..Len(d.keys)}

GroupOf(d, p) == {q \in Registered(d) : d.val[q] = d.val[p]}

Groups(d) == {GroupOf(d, p) : p \in Registered(d)}

NumGroups(d) == Cardinality({d.val[p] : p \in Registered(d)})

RECURSIVE SumSeq(_)
SumSeq(seq) ==
  IF seq = <<>> THEN 0 ELSE SumSeq(Tail(seq)) + Head(seq)

\* The group sizes as the program reads them: the values of the Counter.
GroupSizes(d) ==
  LET counter == Counter(d)
  IN [k \in 1..Len(counter.keys) |-> counter.val[counter.keys[k]]]

\* The pairs processed so far, and the points reachable from a set of points
\* along them.
Processed == {connections[k] : k \in 1..idx}

RECURSIVE Closure(_, _)
Closure(S, E) ==
  LET T == S \cup {e[2] : e \in {f \in E : f[1] \in S}}
             \cup {e[1] : e \in {f \in E : f[2] \in S}}
  IN IF T = S THEN S ELSE Closure(T, E)

\* ------------------------------------------------------------------ claims

\* C1: partition invariant.  Whenever the mapping exists, its keys are
\* exactly the parsed positions, no key is listed twice, every registered
\* point lies in exactly one group, and the group sizes the program counts add
\* up to the number of registered points.
C1_PartitionInvariant ==
  HasCircuits =>
    /\ Registered(circuits) = {positions[k] : k \in 1..Len(positions)}
    /\ DOMAIN circuits.val = Registered(circuits)
    /\ Cardinality(Registered(circuits)) = Len(circuits.keys)
    /\ \A p \in Registered(circuits) :
         Cardinality({g \in Groups(circuits) : p \in g}) = 1
    /\ Len(GroupSizes(circuits)) = NumGroups(circuits)
    /\ SumSeq(GroupSizes(circuits)) = Cardinality(Registered(circuits))

\* C1 witness: some unions were made and left at least two groups, one of
\* them with more than one point.
C1_Witness ==
  /\ pc = "forest"
  /\ idx >= 2
  /\ NumGroups(circuits) >= 2
  /\ \E g \in Groups(circuits) : Cardinality(g) >= 2

\* _connect on any two registered points of one group returns d itself.
SameGroupNoOp(d) ==
  \A a \in Registered(d), b \in Registered(d) :
    d.val[a] = d.val[b] => _connect(d, a, b) = d

\* C2: idempotent union.  In every mapping reached, _connect on any two
\* points of one group returns the mapping unchanged; a step whose pair is
\* already in one group leaves the mapping as it was, and every step's union,
\* applied a second time to the mapping it produced, changes nothing.
C2_IdempotentUnion ==
  [][/\ HasCircuits => SameGroupNoOp(circuits)
     /\ HasCircuits' => SameGroupNoOp(circuits')
     /\ EdgeStep =>
          LET a == connections'[idx'][1]
              b == connections'[idx'][2]
          IN /\ circuits.val[a] = circuits.val[b] => circuits' = circuits
             /\ _connect(circuits', a, b) = circuits']_vars

\* C2 witness: a pair of two different points that are already in one group
\* has just been processed.
C2_Witness ==
  /\ HasCircuits
  /\ idx >= 1
  /\ connections[idx][1] # connections[idx][2]
  /\ \E k \in 1..(idx - 1) :
       /\ connections[k] # connections[idx]
       /\ Closure({connections[idx][1]}, {connections[j] : j \in 1..(idx - 1)})
            = Closure({connections[idx][2]}, {connections[j] : j \in 1..(idx - 1)})

\* C3: monotonic merging.  Over a step that processes a pair the number of
\* groups never grows; it drops, and then by exactly one, exactly when the
\* pair's points were in different groups before the step.
C3_MonotonicMerging ==
  [][EdgeStep =>
       LET a == connections'[idx'][1]
           b == connections'[idx'][2]
           differ == GroupOf(circuits, a) # GroupOf(circuits, b)
       IN /\ NumGroups(circuits') <= NumGroups(circuits)
          /\ (NumGroups(circuits') < NumGroups(circuits)) <=> differ
          /\ differ => NumGroups(circuits') = NumGroups(circuits) - 1]_vars

\* C3 witness: after three pairs, one of which merged nothing, more than one
\* group is left.
C3_Witness ==
  /\ HasCircuits
  /\ idx >= 3
  /\ NumGroups(circuits) >= 2
  /\ NumGroups(circuits) > Len(circuits.keys) - idx

\* C4: group semantics.  Before any pair is processed every registered point
\* is alone in its group; at every moment two registered points carry the same
\* identifier exactly when a chain of processed pairs joins them.
C4_GroupsAreComponents ==
  HasCircuits =>
    /\ idx = 0 => \A p \in Registered(circuits) : GroupOf(circuits, p) = {p}
    /\ \A e \in Processed : circuits.val[e[1]] = circuits.val[e[2]]
    /\ \A g \in Groups(circuits) :
         Closure({CHOOSE p \in g : TRUE}, Processed) = g

\* C4 witness: a group of three or more points beside another group.
C4_Witness ==
  /\ HasCircuits
  /\ idx >= 2
  /\ NumGroups(circuits) >= 2
  /\ \E g \in Groups(circuits) : Cardinality(g) >= 3

\* The pair list has just been built, and it is the whole list: solve_part_2
\* takes all of it, solve_part_1 a prefix that may be all of it.
NumPoints == Len(positions)

AfterSort == pc = "loop" /\ idx = 0

WholeList ==
  IF query = "part1" THEN 2 * limit[1] >= NumPoints * (NumPoints - 1) ELSE TRUE

IndexPairs == {ij \in (1..NumPoints) \X (1..NumPoints) : ij[1] < ij[2]}

PairAt(ij) == <<positions[ij[1]], positions[ij[2]]>>

Weight(e) == get_distance(e[1], e[2])

\* C5: edge list completeness and order.  The list built from n points has
\* n*(n-1)/2 pairs, holds the pair of every two input indices i < j as often
\* as the input yields it and nothing else, and its weights never decrease.
C5_EdgeListComplete ==
  (AfterSort /\ WholeList) =>
    /\ 2 * Len(connections) = NumPoints * (NumPoints - 1)
    /\ \A k \in 1..Len(connections) : \E ij \in IndexPairs : connections[k] = PairAt(ij)
    /\ \A ij \in IndexPairs :
         Cardinality({k \in 1..Len(connections) : connections[k] = PairAt(ij)})
           = Cardinality({uv \in IndexPairs : PairAt(uv) = PairAt(ij)})
    /\ \A k \in 1..(Len(connections) - 1) :
         Weight(connections[k]) <= Weight(connections[k + 1])

\* C5 witness: a list of three or more pairs that is not in generation order.
C5_Witness ==
  /\ AfterSort
  /\ WholeList
  /\ Len(connections) >= 3
  /\ connections # combinations(positions)
  /\ \E k \in 1..(Len(connections) - 1) :
       Weight(connections[k]) < Weight(connections[k + 1])

\* The place of index pair ij in the order by (weight, firstIndex, secondIndex).
Rank(ij) ==
  1 + Cardinality({uv \in IndexPairs :
        \/ Weight(PairAt(uv)) < Weight(PairAt(ij))
        \/ /\ Weight(PairAt(uv)) = Weight(PairAt(ij))
           /\ \/ uv[1] < ij[1]
              \/ uv[1] = ij[1] /\ uv[2] < ij[2]})

\* C6: tie-break determinism.  Every index pair sits at its place in the
\* order by weight and then by (firstIndex, secondIndex), so of two pairs of
\* equal weight the lexicographically earlier one comes first; building the
\* list again from the same positions gives the same sequence.
C6_TieBreak ==
  (AfterSort /\ WholeList) =>
    /\ \A ij \in IndexPairs : connections[Rank(ij)] = PairAt(ij)
    /\ sort_by_distance(positions) = connections

\* C6 witness: two different pairs of equal weight, the one generated first
\* coming from a later place in the generation order than some lighter pair.
C6_Witness ==
  /\ AfterSort
  /\ WholeList
  /\ \E ij \in IndexPairs, uv \in IndexPairs :
       /\ ij # uv
       /\ PairAt(ij) # PairAt(uv)
       /\ Weight(PairAt(ij)) = Weight(PairAt(uv))
       /\ Rank(uv) = Rank(ij) + 1

\* C7: edge weight.  For all parsed positions a, b the weight is the integer
\* (ax-bx)^2 + (ay-by)^2 + (az-bz)^2: a natural number, the same for (b, a),
\* and 0 exactly when a and b have the same coordinates.
C7_SquaredDistance ==
  \A i \in 1..NumPoints, j \in 1..NumPoints :
    LET a == positions[i]
        b == positions[j]
    IN /\ get_distance(a, b) = (a[1] - b[1])^2 + (a[2] - b[2])^2 + (a[3] - b[3])^2
       /\ get_distance(a, b) \in Nat
       /\ get_distance(a, b) = get_distance(b, a)
       /\ (get_distance(a, b) = 0) <=> (a = b)

\* C7 witness: the parsed input holds two lines of identical coordinates and
\* two positions that differ in the last coordinate alone, one of them negative.
C7_Witness ==
  /\ pc = "parsed"
  /\ \E i \in 1..NumPoints, j \in 1..NumPoints :
       i # j /\ positions[i] = positions[j]
  /\ \E i \in 1..NumPoints, j \in 1..NumPoints :
       /\ positions[i][1] = positions[j][1]
       /\ positions[i][2] = positions[j][2]
       /\ positions[i][3] < 0
       /\ positions[j][3] >= 0

\* C8: duplicate coordinates are distinct points.  Before any union there are
\* as many singleton groups as input lines, weight-0 pairs come before every
\* pair of positive weight, and once a weight-0 pair is processed its two
\* points form a group of at least two.
C8_DuplicatesAreDistinctPoints ==
  HasCircuits =>
    /\ idx = 0 =>
         /\ NumGroups(circuits) = NumPoints
         /\ \A g \in Groups(circuits) : Cardinality(g) = 1
    /\ \A k \in 1..Len(connections), m \in 1..Len(connections) :
         (Weight(connections[k]) = 0 /\ Weight(connections[m]) > 0) => k < m
    /\ \A k \in 1..idx :
         Weight(connections[k]) = 0 =>
           Cardinality(GroupOf(circuits, connections[k][1])) >= 2

\* The product of the three largest group sizes, read off the groups as sets:
\* with fewer than three groups, the product of the sizes there are.
Top3Groups(d) ==
  {t \in Groups(d) \X Groups(d) \X Groups(d) :
     /\ t[1] # t[2] /\ t[1] # t[3] /\ t[2] # t[3]
     /\ \A h \in Groups(d) \ {t[1], t[2], t[3]} :
          \A k \in 1..3 : Cardinality(h) <= Cardinality(t[k])}

Top3Product(d) ==
  IF NumGroups(d) >= 3
    THEN LET t == CHOOSE u \in Top3Groups(d) : TRUE
         IN Cardinality(t[1]) * Cardinality(t[2]) * Cardinality(t[3])
  ELSE IF NumGroups(d) = 2
    THEN LET g == CHOOSE h \in Groups(d) : TRUE
         IN Cardinality(g) * Cardinality(Registered(d) \ g)
  ELSE Cardinality(Registered(d))

Min(a, b) == IF a < b THEN a ELSE b

ScenarioA == << <<0, 0, 0>>, <<1, 0, 0>>, <<5, 0, 0>> >>

C11_BudgetExceedingEdgeCount ==
  (query = "part1" /\ NumPoints >= 1 /\ pc \in {"loop", "done", "raised"}
     /\ WholeList) =>
    /\ pc # "raised"
    /\ 2 * Len(connections) = NumPoints * (NumPoints - 1)
    /\ pc = "done" =>
         /\ idx = Len(connections)
         /\ NumGroups(circuits) = 1
         /\ result = <<NumPoints>>

\* The number of connected components of the registered points under the
\* first k pairs of the list.
ComponentsAfter(k) ==
  Cardinality({Closure({p}, {connections[j] : j \in 1..k}) :
                 p \in Registered(circuits)})

\* C12: connectivity threshold.  solve_part_2 walks the pairs in ascending
\* weight order and stops at the first pair whose union leaves exactly one
\* group: the stopping pair is the last one processed, no shorter non-empty
\* prefix of the list connects everything, and the value returned is the
\* product of the first coordinates of the stopping pair's endpoints.  For
\* (0,0,0), (1,0,0), (5,0,0) the stopping pair is (1,0,0)-(5,0,0), weight 16.
C12_ConnectivityThreshold ==
  (query = "part2" /\ pc \in {"loop", "after_loop", "done"}) =>
    /\ pc # "loop" =>
         /\ connections = sort_by_distance(positions)
         /\ \A k \in 1..(Len(connections) - 1) :
              Weight(connections[k]) <= Weight(connections[k + 1])
    /\ pc = "loop" => connecting = None
    /\ connecting # None =>
         /\ idx >= 1
         /\ connecting = connections[idx]
         /\ NumGroups(circuits) = 1
         /\ ComponentsAfter(idx) = 1
         /\ \A k \in 1..(idx - 1) : ComponentsAfter(k) > 1
         /\ pc = "done" => result = <<connecting[1][1] * connecting[2][1]>>
         /\ positions = ScenarioA =>
              /\ connecting = << <<1, 0, 0>>, <<5, 0, 0>> >>
              /\ Weight(connecting) = 16
              /\ idx = 2

\* C12 witness: the three-point example has answered 1 * 5 after two pairs,
\* leaving the weight-25 pair unprocessed.
C12_Witness ==
  /\ query = "part2"
  /\ pc = "done"
  /\ positions = ScenarioA
  /\ idx = 2
  /\ Len(connections) = 3
  /\ result = <<5>>

\* The weight of the pair of input lines ij.
IndexWeight(ij) == Weight(PairAt(ij))

\* All pairs of input lines have different weights.
DistinctWeights ==
  \A ij \in IndexPairs, uv \in IndexPairs :
    ij # uv => IndexWeight(ij) # IndexWeight(uv)

\* The input lines reachable from line i over pairs lighter than w.
ReachLighter(i, w) ==
  Closure({i}, {uv \in IndexPairs : IndexWeight(uv) < w})

\* The minimum spanning tree of the complete graph on the input lines, when
\* weights are distinct: a pair belongs to it exactly when strictly lighter
\* pairs do not already join its endpoints.
MSTEdges ==
  {ij \in IndexPairs : ij[2] \notin ReachLighter(ij[1], IndexWeight(ij))}

\* The pairs at which the graph of all pairs up to that weight first becomes
\* connected.
ThresholdPairs ==
  {ij \in IndexPairs :
     /\ ReachLighter(1, IndexWeight(ij) + 1) = 1..NumPoints
     /\ ReachLighter(1, IndexWeight(ij)) # 1..NumPoints}

\* C13: relationship to the minimum spanning tree.  When all pair weights
\* are distinct, the pair at which solve_part_2 stops is determined by the
\* weights alone (exactly one pair first connects the graph) and it is the
\* heaviest pair of the minimum spanning tree.
C13_StopEdgeIsMSTMaximum ==
  (query = "part2" /\ pc \in {"after_loop", "done"} /\ connecting # None
     /\ NumPoints >= 2 /\ DistinctWeights) =>
    /\ Cardinality(MSTEdges) = NumPoints - 1
    /\ Cardinality(ThresholdPairs) = 1
    /\ \A ij \in ThresholdPairs : connecting = PairAt(ij)
    /\ \E ij \in MSTEdges :
         /\ connecting = PairAt(ij)
         /\ \A uv \in MSTEdges : IndexWeight(uv) <= IndexWeight(ij)

\* C13 witness: five points with ten different weights; the third lightest
\* pair closes a cycle, so the stop comes at the fifth pair, of weight 49,
\* while heavier pairs are left unprocessed.
C13_Witness ==
  /\ query = "part2"
  /\ pc = "done"
  /\ positions = BridgeInput
  /\ DistinctWeights
  /\ idx = 5
  /\ connecting = << <<3, 0, 0>>, <<10, 0, 0>> >>
  /\ Weight(connecting) = 49
  /\ circuits.val[connections[3][1]] = circuits.val[connections[3][2]]
  /\ connections[3] \notin {PairAt(ij) : ij \in MSTEdges}
  /\ result = <<30>>

\* C14: the connectivity assertion cannot fail.  For every input of n >= 1
\* points solve_part_2 finds a connecting pair, so `assert connecting is not
\* None` never raises.
C14_AssertionNeverFails ==
  (query = "part2" /\ NumPoints >= 1) =>
    /\ pc = "after_loop" => connecting # None
    /\ ~(pc = "raised" /\ error = "AssertionError")

\* C15: empty and singleton inputs.  With zero or one points the pair list
\* is empty, solve_part_1 completes without raising, and the score is 1.
C15_EmptyAndSingletonInputs ==
  (query = "part1"
     /\ (data = <<>> \/ \E p \in Universe : data = InputText(<<p>>))) =>
    /\ pc # "raised"
    /\ pc \in {"loop", "done"} => connections = <<>>
    /\ pc = "done" => result = <<1>>

\* The orders in which the first k calls can be made.
Orders(k) == {f \in [1..k -> 1..k] : \A i \in 1..k, j \in 1..k : f[i] = f[j] => i = j}

\* The mapping after the calls edges[order[1]], ..., edges[order[k]] on d.
RECURSIVE ConnectInOrder(_, _, _, _)
ConnectInOrder(d, edges, order, k) ==
  IF k = 0 THEN d
  ELSE LET e == edges[order[k]]
       IN CHOOSE after \in
            {_connect(before, e[1], e[2]) :
               before \in {ConnectInOrder(d, edges, order, k - 1)}} : TRUE

AllOrders == [k \in 0..MaxUnions |-> Orders(k)]

\* What a caller can observe of a mapping: its partition and its score.
Outcome(d) == <<Groups(d), _score(d)>>

\* C16: order independence of unions.  Whatever the order in which a set of
\* pairs is passed to _connect, the final partition is the same, and so is
\* the score computed from it; the identifiers and the partitions on the way
\* may differ.
C16_OrderIndependence ==
  (query = "unions" /\ pc = "forest") =>
    {Outcome(after) :
       after \in {ConnectInOrder(new_circuits(positions), connections, order, idx) :
                    order \in AllOrders[idx]}} = {Outcome(circuits)}

\* C16 witness: three calls, at least two of them merging, and an order of
\* the same calls that ends with different identifiers and passes through a
\* different partition after the first call.
C16_Witness ==
  /\ query = "unions"
  /\ pc = "forest"
  /\ idx = 3
  /\ NumGroups(circuits) <= Len(circuits.keys) - 2
  /\ \E order \in AllOrders[idx] :
       LET start == new_circuits(positions)
           other == ConnectInOrder(start, connections, order, idx)
       IN /\ other.val # circuits.val
          /\ Groups(other) = Groups(circuits)
          /\ Groups(ConnectInOrder(start, connections, order, 1))
               # Groups(_connect(start, connections[1][1], connections[1][2]))

\* The lines of the input as parse_input sees them.
Lines == split(strip(data), "\n")

\* A line is well formed when it has three comma-separated fields, each an
\* integer literal.
WellFormedLine(line) ==
  /\ Len(split(line, ",")) = 3
  /\ \A k \in 1..3 : IntOk(split(line, ",")[k])

\* The texts written out from position lists, one "x,y,z" line per position.
CanonicalTexts == Inputs \ OtherTexts

\* C17: parse failure.  An input with a line whose field count is not 3 or
\* with a field that is not an integer fails in parsing: no position list is
\* produced and neither query returns a value.  A well-formed input parses
\* to one position per line, in input order.
C17_ParseFailure ==
  /\ (\E k \in 1..Len(Lines) : ~WellFormedLine(Lines[k])) =>
       /\ pc \in {"start", "raised"}
       /\ pc = "raised" => error \in {"ValueError", "AssertionError"}
       /\ positions = <<>>
       /\ result = None
  /\ (pc = "parsed" /\ \A k \in 1..Len(Lines) : WellFormedLine(Lines[k])) =>
       /\ Len(positions) = Len(Lines)
       /\ \A k \in 1..Len(Lines) :
            \A c \in 1..3 : positions[k][c] = int(split(Lines[k], ",")[c])
       /\ data \in CanonicalTexts => InputText(positions) = data

\* C17 witness: a two-line text whose first line is well formed and whose
\* second line has two fields has raised, leaving no positions and no result.
C17_Witness ==
  /\ pc = "raised"
  /\ Len(Lines) = 2
  /\ WellFormedLine(Lines[1])
  /\ Len(split(Lines[2], ",")) = 2
  /\ error = "AssertionError"
  /\ positions = <<>>
  /\ result = None

\* The outcome of the running query when it is called on the text on its own.
Alone == IF query = "part1" THEN solve_part_1(data) ELSE solve_part_2(data)

\* C18: no state is shared between queries.  Whatever queries ran before on
\* the same text, a query returns (or raises) what it returns when run on
\* its own, and once the positions are parsed no step changes them or the
\* text.
C18_NoSharedState ==
  /\ [](/\ pc = "done" => (Alone.err = "" /\ result = Alone.value)
        /\ pc = "raised" => (error = Alone.err /\ result = None))
  /\ [][/\ data' = data
        /\ positions # <<>> => positions' = positions]_vars

\* C18 witness: solve_part_1 has answered 3 on the three-point example while
\* the locals of an earlier solve_part_2 call are still around.
C18_Witness ==
  /\ query = "part1"
  /\ pc = "done"
  /\ positions = ScenarioA
  /\ connecting = << <<1, 0, 0>>, <<5, 0, 0>> >>
  /\ limit = <<RealLimit>>
  /\ result = <<3>>

\* C19: day 1 part 1 equivalence.  On every text of L/R rotation lines with
\* non-negative step counts the original solve_part_1 and
\* solve_part_1_optimized return the same count.
C19_Part1Equivalence ==
  (sample_data \in RotationTexts /\ original_result1 # None
     /\ improved_result1 # None) =>
    /\ original_result1[1] = ""
    /\ improved_result1[1] = ""
    /\ original_result1 = improved_result1

\* C20: day 1 part 2 equivalence.  On every text of L/R rotation lines with
\* non-negative step counts the original solve_part_2, solve_part_2_optimized
\* and solve_part_2_mathematical all return, and return the same number.
C20_Part2Equivalence ==
  sample_data \in RotationTexts =>
    \A r \in {original_result2, improved_result2_sim, improved_result2_math},
       t \in {original_result2, improved_result2_sim, improved_result2_math} :
      (r # None /\ t # None) => (r[1] = "" /\ r = t)

\* C20 witness: the three solvers have answered 3 on "R150\nL100": the first
\* line lands on 0 at its steps 50 and 150, the second at its step 100.
C20_Witness ==
  /\ sample_data = RotationText(<< <<"R", 150>>, <<"L", 100>> >>)
  /\ original_result2 = Returns(3)
  /\ improved_result2_sim = Returns(3)
  /\ improved_result2_math = Returns(3)

\* The lines of sample_data as the day 1 parsers see them.
RotationLines == split(strip(sample_data), "\n")

\* A line the validation is about: its operation letter (in either case) is
\* not L or R, or what follows the letter is not a number (nothing at all
\* included), or the number is negative.
InvalidRotationLine(raw) ==
  LET line == strip(raw)
  IN /\ line # <<>>
     /\ \/ line[1] \notin {"L", "R", "l", "r"}
        \/ Len(line) = 1
        \/ ~IntOk(Tail(line))
        \/ int(Tail(line)) < 0

\* C21: day 1 input validation.  solve_part_1_optimized raises and returns
\* no count for every input holding a line whose operation letter is not L or
\* R, whose value is not a number, whose value is negative, or that is an
\* operation letter with no value.
C21_InputValidation ==
  ((\E k \in 1..Len(RotationLines) : InvalidRotationLine(RotationLines[k]))
     /\ improved_result1 # None) =>
    improved_result1 = Raises("ValueError")

\* C21 witness: a text whose first line is a valid rotation and whose second
\* line has a negative value or a wrong letter has been rejected.
C21_Witness ==
  /\ Len(RotationLines) = 2
  /\ ~InvalidRotationLine(RotationLines[1])
  /\ RotationLines[2][1] = "X"
  /\ improved_result1 = Raises("ValueError")

\* C22: day 1 empty input is rejected.  solve_part_1_optimized called with the
\* empty string raises instead of returning a count.
C22_EmptyInputRejected ==
  (sample_data = <<>> /\ improved_result1 # None) => improved_result1[1] # ""

\* The dial object exists: its constructor returned.
DialBuilt == dial_state.err \in {"", "DialRotationError"}

\* C23: CircularDial rejects negative rotations without side effects.  A
\* rotate_left or rotate_right call with steps < 0 raises DialRotationError
\* and leaves position and zero_count as they were.
C23_NegativeRotationRejected ==
  [][(dial_call'[1] \in {"rotate_left", "rotate_right"} /\ dial_call'[2] < 0) =>
       /\ dial_state'.err = "DialRotationError"
       /\ dial_state'.position = dial_state.position
       /\ dial_state'.zero_count = dial_state.zero_count]_vars

\* C23 witness: a dial that has moved off its initial position and counted a
\* zero has just refused a negative left rotation.
C23_Witness ==
  /\ dial_call = <<"rotate_left", -1>>
  /\ dial_state.err = "DialRotationError"
  /\ dial_state.position = 49
  /\ dial_state.zero_count = 1

\* C27: dial position range invariant.  The constructor accepts exactly the
\* initial positions 0..99 and raises ValueError otherwise; whatever rotations
\* follow, the position stays in 0..99 and zero_count never decreases.
C27_DialPositionRange ==
  /\ [](/\ dial_call[1] = "__init__" =>
             IF dial_call[2] \in 0..99
               THEN dial_state = [err |-> "", position |-> dial_call[2],
                                  zero_count |-> 0]
             ELSE dial_state.err = "ValueError"
        /\ dial_state.err = "ValueError" => dial_call[1] = "__init__"
        /\ DialBuilt => /\ dial_state.position \in 0..99
                        /\ dial_state.zero_count \in Nat)
  /\ [][DialBuilt => /\ DialBuilt'
                     /\ dial_state'.zero_count >= dial_state.zero_count]_vars

\* C27 witness: a dial constructed at 99 has been turned right by a turn and
\* a half, wrapping past 0 twice, and rests on 49.
C27_Witness ==
  /\ dial_call = <<"rotate_right", 150>>
  /\ dial_state.err = ""
  /\ dial_state.position = 49
  /\ dial_state.zero_count = 2

\* A beam reaches cell c when some column-by-row path leads to it from the
\* cell under S: straight down from a cell that is not a splitter, one column
\* left or right and one row down from a splitter.
BeamReaches(grid, c) ==
  LET top == StartY(grid) + 1
  IN /\ top <= c[2]
     /\ \E path \in [top..c[2] -> 0..(ManifoldW(grid) - 1)] :
          /\ path[top] = StartX(grid)
          /\ path[c[2]] = c[1]
          /\ \A y \in top..(c[2] - 1) :
               IF CellAt(grid, path[y], y) = "^"
                 THEN path[y + 1] = path[y] - 1 \/ path[y + 1] = path[y] + 1
               ELSE path[y + 1] = path[y]

\* The splitter cells reached by at least one beam.
ReachedSplitters ==
  {c \in (0..(ManifoldW(manifold) - 1)) \X (0..(ManifoldH(manifold) - 1)) :
     CellAt(manifold, c[1], c[2]) = "^" /\ BeamReaches(manifold, c)}

\* C24: day 7 part 1 counts each splitter at most once.  The split count
\* returned is the number of distinct splitter cells that some beam reaches;
\* on the way the count is the number of reached splitters above the row the
\* beams are in.
C24_SplittersCountedOnce ==
  /\ beam_pc = "done" =>
       manifold_result = Returns(Cardinality(ReachedSplitters))
  /\ (beam_pc = "loop" /\ active # {}) =>
       splits = Cardinality({c \in ReachedSplitters :
                               \A p \in active : c[2] < p[2]})

\* C24 witness: the beams sent out by two splitters of one row meet on the
\* splitter below and between them; four splitters are reached and the
\* answer is 4.
C24_Witness ==
  /\ beam_pc = "done"
  /\ manifold = << <<".", "S", ".">>, <<".", "^", ".">>,
                                  <<"^", ".", "^">>, <<".", "^", ".">> >>
  /\ ReachedSplitters = {<<1, 1>>, <<0, 2>>, <<2, 2>>, <<1, 3>>}
  /\ manifold_result = Returns(4)


\* The in-order subsequences of SelectCount characters of a line: the line
\* with Len(line) - SelectCount places dropped.
DropPlaces(n) ==
  {d \in [1..(n - SelectCount) -> 1..n] :
     \A k \in 1..(n - SelectCount - 1) : d[k] < d[k + 1]}

\* The k-th character kept comes after the drops d[i] that have fewer than k
\* kept places before them, and d[i] has d[i] - i kept places before it.
Without(line, d) ==
  [k \in 1..(Len(line) - Len(d)) |->
     line[k + Cardinality({i \in DOMAIN d : d[i] - i < k})]]

Subsequences(line) == {Without(line, d) : d \in DropPlaces(Len(line))}

\* What a line of digits is worth: the number it spells when it has at most
\* SelectCount digits, the largest number among its subsequences otherwise.
Largest(values) == CHOOSE v \in values : \A w \in values : BigLeq(w, v)

BankValue(line) ==
  IF Len(line) <= SelectCount THEN BigInt(line)
  ELSE CHOOSE v \in {Largest(values) :
                       values \in {{BigInt(s) : s \in Subsequences(line)}}} : TRUE

RECURSIVE SumBanks(_)
SumBanks(k) ==
  IF k = 0 THEN <<0, 0>>
  ELSE BigAdd(SumBanks(k - 1), BankValue(strip(banks[k])))

\* C25: when the selection on a line of more than twelve digits is over, the
\* digits chosen are twelve digits of the line in their order and no other
\* choice of twelve digits in order spells a larger number; for a line of one
\* to twelve digits the digits chosen are the whole line; and the running
\* total, and so the value returned, is the sum of these numbers over the
\* lines read so far.
C25_GreedySelectionOptimal ==
  /\ bank_pc = "add" /\ Len(batteries) > SelectCount =>
       \E subsequences \in {Subsequences(JoinDigits(batteries))} :
         /\ voltage_str \in subsequences
         /\ \A s \in subsequences : BigLeq(BigInt(s), BigInt(voltage_str))
  /\ bank_pc = "add" /\ Len(batteries) <= SelectCount =>
       /\ voltage_str = strip(banks[bank_idx + 1])
       /\ voltage_str = JoinDigits(batteries)
  /\ bank_pc = "line" => total_output_voltage = SumBanks(bank_idx)
  /\ bank_pc = "done" => battery_result = Returns(SumBanks(Len(banks)))

\* A line of fourteen digits whose best twelve skip the first two, followed
\* by a line of three digits: 951951951951 + 915.
C25_Witness ==
  /\ bank_pc = "done"
  /\ banks = << <<"5", "1", "9", "5", "1", "9", "5", "1", "9", "5", "1", "9", "5", "1">>,
                <<"9", "1", "5">> >>
  /\ battery_result = Returns(<<951951, 952866>>)

\* The ids covered by at least one of the parsed ranges.
CoveredIds == UNION {r[1]..r[2] : r \in {fresh_ranges[k] : k \in 1..Len(fresh_ranges)}}

\* C26: day 5 part 2 coverage count.  For a list of inclusive ranges
\* start-end with 0 <= start <= end, in any order, the value returned is the
\* number of distinct ids covered by at least one range.
C26_CoverageCount ==
  (/\ range_pc = "done"
   /\ \A k \in 1..Len(fresh_ranges) :
        /\ Len(fresh_ranges[k]) = 2
        /\ 0 <= fresh_ranges[k][1]
        /\ fresh_ranges[k][1] <= fresh_ranges[k][2])
    => range_result = Returns(Cardinality(CoveredIds))

\* The number of '@' in a text.
RollCount(text) == Cardinality({k \in 1..Len(text) : text[k] = "@"})

\* C28: day 4 part 2 terminates.  The loop ends on every enumerated grid;
\* every iteration that does not end it takes at least one roll off the grid;
\* and the number of iterations is at most the number of rolls at the start
\* plus one.
C28_LoopTerminates ==
  /\ <>(roll_pc = "done")
  /\ [](round <= RollCount(roll_data) + 1)
  /\ [][(roll_pc = "loop" /\ roll_pc' = "loop") =>
          /\ Cardinality(RollCells(roll_grid')) < Cardinality(RollCells(roll_grid))
          /\ total_removed' > total_removed]_vars

\* C28 witness: the full grid of three by three has taken four iterations,
\* corners first, then the sides, then the centre, then none.
C28_Witness ==
  /\ roll_pc = "done"
  /\ roll_data = GridText([i \in 1..3 |-> [j \in 1..3 |-> "@"]])
  /\ round = 4
  /\ roll_result = Returns(9)

\* C29: day 4 part 2 end state.  When the loop has ended every roll left on
\* the grid has at least four rolls among its eight neighbours and the value
\* returned is the number of rolls at the start minus the number left; and a
\* round changes exactly the rolls that had fewer than four neighbouring
\* rolls on the grid as it was when the round began.
C29_EndState ==
  /\ [](roll_pc = "done" =>
          /\ \A c \in RollCells(roll_grid) :
               count_adjacent_rolls(roll_grid, c[1], c[2]) >= 4
          /\ roll_result =
               Returns(RollCount(roll_data) - Cardinality(RollCells(roll_grid))))
  /\ [][(roll_pc = "loop" /\ roll_pc' = "loop") =>
          /\ Len(roll_grid') = Len(roll_grid)
          /\ \A i \in 1..Len(roll_grid) :
               /\ Len(roll_grid'[i]) = Len(roll_grid[i])
               /\ \A j \in 1..Len(roll_grid[i]) :
                    roll_grid'[i][j] =
                      IF /\ roll_grid[i][j] = "@"
                         /\ count_adjacent_rolls(roll_grid, i - 1, j - 1) < 4
                        THEN "." ELSE roll_grid[i][j]]_vars

\* C29 witness: the full grid of four by four loses its corners in the first
\* round and keeps the other twelve rolls, each with four or more neighbours.
C29_Witness ==
  /\ roll_pc = "done"
  /\ roll_grid = << <<".", "@", "@", ".">>, <<"@", "@", "@", "@">>,
                    <<"@", "@", "@", "@">>, <<".", "@", "@", ".">> >>
  /\ RollCount(roll_data) = 16
  /\ round = 2
  /\ roll_result = Returns(4)

\* C30: frame of _connect.  Over a step that passes a pair (a, b) of points
\* of different groups to _connect, the points that carried b's identifier
\* carry a's afterwards, every other point keeps its identifier, the keys of
\* the mapping and their order are unchanged, and the identifier of every
\* point is the one that some point of its group was registered with.
C30_ConnectFrame ==
  [][(EdgeStep /\ circuits.val[connections'[idx'][1]] # circuits.val[connections'[idx'][2]]) =>
       LET a == connections'[idx'][1]
           b == connections'[idx'][2]
       IN /\ circuits'.keys = circuits.keys
          /\ DOMAIN circuits'.val = DOMAIN circuits.val
          /\ \A p \in Registered(circuits) :
               circuits'.val[p] = IF circuits.val[p] = circuits.val[b]
                                    THEN circuits.val[a]
                                  ELSE circuits.val[p]
          /\ \E initial \in {new_circuits(positions)} :
               \A p \in Registered(circuits') :
                 \E q \in GroupOf(circuits', p) : initial.val[q] = circuits'.val[p]]_vars

\* C30 witness: solve_part_1 on the bridge input has just joined the group of
\* (10,0,0) and (10,6,0), registered as 3 and 4 and both carrying 3, to the
\* group of (3,0,0), which carries 0; all five points carry 0.
C30_Witness ==
  /\ query = "part1"
  /\ pc = "loop"
  /\ idx = 5
  /\ connections[5] = << <<3, 0, 0>>, <<10, 0, 0>> >>
  /\ circuits.keys = << <<0, 0, 0>>, <<1, 0, 0>>, <<3, 0, 0>>, <<10, 0, 0>>, <<10, 6, 0>> >>
  /\ \A p \in Registered(circuits) : circuits.val[p] = 0
====
